---- MODULE Spec2Model ----
(***************************************************************************)
(* A model of tic-tool: the Lua tokeniser / rewriter / serialiser of       *)
(* src/src/lua.rs and the DEFLATE analyser of src/src/deflate.rs.          *)
(*                                                                         *)
(* Bytes are one-character strings; a byte string is a sequence of them.   *)
(* Offsets are 0-based as in the source; sequences are 1-based, so the     *)
(* byte at offset o of s is s[o + 1].                                      *)
(***************************************************************************)
EXTENDS Integers, Sequences, FiniteSets, TLC

VARIABLES
    code,       \* lua: the input byte string handed to Program::parse
    pc,         \* lua: position of the pack pipeline
    tt,         \* lua: Program.tt, the token tree
    renames,    \* lua: Program.renames
    out,        \* lua: the bytes returned by the last Program::serialize
    stream,     \* deflate: the blocks the compressor wrote
    input,      \* deflate: the bytes handed to analyze
    apc,        \* deflate: position of analyze
    bitstream,  \* deflate: the Bitstream (pos, item_start)
    data,       \* deflate: the AnalysisData
    blocks,     \* deflate: the BlockAnalysis of the blocks decoded so far
    is_final,   \* deflate: the BFINAL bit of the current block
    block,      \* deflate: header_item and block_type of the current block
    huff_lit_length,    \* deflate: the literal/length table of the block
    huff_distance,      \* deflate: the distance table of the block
    lz_items,   \* deflate: the items of the current block decoded so far
    rename,         \* pack: the renames merged so far
    best_rename,    \* pack: the renames of the best candidate
    best_size,      \* pack: the size of the best candidate
    best_code,      \* pack: the code of the best candidate
    seen_renames,   \* pack: the rename maps seen so far
    analysed,       \* pack: the candidates analysed so far (history)
    compressed,     \* pack: the two streams of compress_code (history)
    chunk,          \* pack: the chunk compress_code returned
    code_lengths,   \* deflate: the code length of every symbol of a table
    symbol,         \* deflate: the value the last Huffman::read returned
    cartridge,      \* tic_file: the chunks handed to save
    file,           \* tic_file: the bytes save wrote
    loaded          \* tic_file: the chunks load returned

luaVars == <<code, pc, tt, renames, out>>

deflateVars ==
    <<stream, input, apc, bitstream, data, blocks, is_final, block,
      huff_lit_length, huff_distance, lz_items>>

packVars ==
    <<rename, best_rename, best_size, best_code, seen_renames, analysed,
      compressed, chunk>>

\* the state of the operations that are run on their own
ticVars == <<cartridge, file, loaded>>

unitVars == <<code_lengths, symbol, ticVars>>

vars == <<luaVars, deflateVars, packVars, unitVars>>

----------------------------------------------------------------------------
(* Bounds of the model.                                                    *)

\* an input is the concatenation of at most MaxChunks lexemes of Chunks
MaxChunks == 4

\* the same for the inputs of nested code strings
MaxNestChunks == 6

\* a compressed stream holds at most MaxItems literals and matches
MaxItems == 3

\* the symbols and the longest code of the Huffman tables read on their own
MaxSymbols == 4
MaxBits == 3

\* the longest run of one byte among the codes given to compress_code
MaxRun == 12

\* RFC 1951: the greatest length of a match
MaxMatch == 258

----------------------------------------------------------------------------
(* Byte classes (u8::is_ascii_* and the ASCII part of the regex classes).  *)

Lower == {"a","b","c","d","e","f","g","h","i","j","k","l","m",
          "n","o","p","q","r","s","t","u","v","w","x","y","z"}
Upper == {"A","B","C","D","E","F","G","H","I","J","K","L","M",
          "N","O","P","Q","R","S","T","U","V","W","X","Y","Z"}
Digit == {"0","1","2","3","4","5","6","7","8","9"}
HexDigit == Digit \cup {"a","b","c","d","e","f","A","B","C","D","E","F"}
Alpha == Lower \cup Upper
AlphaNum == Alpha \cup Digit
\* regex \s restricted to the ASCII bytes a TLA+ string can hold
WhiteSpace == {" ", "\t", "\n", "\r"}
\* regex \w, ASCII part
WordChar == AlphaNum \cup {"_"}
IdentStart == Alpha \cup {"_"}

is_valid_ident_start(c) == c = "_" \/ c \in Alpha

to_ascii_lowercase(c) ==
    CASE c = "X" -> "x"
      [] c = "P" -> "p"
      [] c = "E" -> "e"
      [] OTHER -> c

----------------------------------------------------------------------------
(* Slices.                                                                 *)

Drop(s, n) == SubSeq(s, n + 1, Len(s))
Take(s, n) == SubSeq(s, 1, n)

\* the sum of s[lo..hi]
RECURSIVE SeqSum(_, _, _)
SeqSum(s, lo, hi) ==
    IF lo > hi THEN 0
    ELSE IF lo = hi THEN s[lo]
    ELSE LET mid == (lo + hi) \div 2
         IN SeqSum(s, lo, mid) + SeqSum(s, mid + 1, hi)

\* the concatenation of the sequences of parts
RECURSIVE Flatten(_)
Flatten(parts) ==
    IF parts = <<>> THEN <<>>
    ELSE IF Len(parts) = 1 THEN parts[1]
    ELSE LET mid == Len(parts) \div 2
         IN Flatten(SubSeq(parts, 1, mid))
            \o Flatten(SubSeq(parts, mid + 1, Len(parts)))

\* does s hold the bytes of lit at offset p
HasAt(s, p, lit) ==
    /\ p + Len(lit) <= Len(s)
    /\ \A i \in 1..Len(lit) : s[p + i] = lit[i]

\* length of the longest run of bytes of class S starting at offset p
\* (the loop of the source, taken sixteen turns at a time while sixteen
\* turns are possible, so that a long run stays a shallow recursion)
RECURSIVE RunLen(_, _, _)
RunLen(s, p, S) ==
    IF p + 16 <= Len(s) /\ \A k \in 1..16 : s[p + k] \in S
    THEN 16 + RunLen(s, p + 16, S)
    ELSE IF p < Len(s) /\ s[p + 1] \in S THEN 1 + RunLen(s, p + 1, S) ELSE 0

\* length of the longest run of bytes other than c starting at offset p
RECURSIVE RunLenNot(_, _, _)
RunLenNot(s, p, c) ==
    IF p < Len(s) /\ s[p + 1] # c THEN 1 + RunLenNot(s, p + 1, c) ELSE 0

----------------------------------------------------------------------------
(* The regular expressions of next_token: each operator returns the end of *)
(* the match anchored at the start of s, or -1 when there is none.  The    *)
(* regex crate is leftmost-first and every repetition here is greedy with  *)
(* nothing after it that could force it to give bytes back.                *)

NoMatch == 0 - 1

\* \A\s+
ReWhiteSpace(s) ==
    LET n == RunLen(s, 0, WhiteSpace) IN IF n > 0 THEN n ELSE NoMatch

\* \A\[=*\[  at offset p of s
ReLongBracketAt(s, p) ==
    IF HasAt(s, p, <<"[">>)
    THEN LET eq == RunLen(s, p + 1, {"="})
         IN IF HasAt(s, p + 1 + eq, <<"[">>) THEN p + 2 + eq ELSE NoMatch
    ELSE NoMatch

\* \A--\[=*\[
ReLongBracketComment(s) ==
    IF HasAt(s, 0, <<"-", "-">>) THEN ReLongBracketAt(s, 2) ELSE NoMatch

\* \A\[=*\[
ReLongBracket(s) == ReLongBracketAt(s, 0)

\* \A--.*   ('.' is any byte but the newline)
ReComment(s) ==
    IF HasAt(s, 0, <<"-", "-">>) THEN 2 + RunLenNot(s, 2, "\n") ELSE NoMatch

\* \A[_a-zA-Z][_a-zA-Z0-9]*
ReIdentifier(s) ==
    IF Len(s) > 0 /\ s[1] \in IdentStart
    THEN 1 + RunLen(s, 1, WordChar)
    ELSE NoMatch

\* ([eE]-?\d+)? or ([pP]-?\d+)? at offset m: the end of the optional group
ReExponent(s, m, marks) ==
    IF m < Len(s) /\ s[m + 1] \in marks
    THEN LET q == IF HasAt(s, m + 1, <<"-">>) THEN m + 2 ELSE m + 1
             n == RunLen(s, q, Digit)
         IN IF n > 0 THEN q + n ELSE m
    ELSE m

\* \A(\d+(\.\d*)?|\.\d+)([eE]-?\d+)?
ReNumber(s) ==
    LET d == RunLen(s, 0, Digit)
    IN IF d > 0
       THEN LET m == IF HasAt(s, d, <<".">>)
                     THEN d + 1 + RunLen(s, d + 1, Digit)
                     ELSE d
            IN ReExponent(s, m, {"e", "E"})
       ELSE IF HasAt(s, 0, <<".">>) /\ RunLen(s, 1, Digit) > 0
            THEN ReExponent(s, 1 + RunLen(s, 1, Digit), {"e", "E"})
            ELSE NoMatch

\* \A0[xX][[:xdigit:]]*(\.[[:xdigit:]]*)?([pP]-?\d+)?
ReHexNumber(s) ==
    IF HasAt(s, 0, <<"0">>) /\ Len(s) > 1 /\ s[2] \in {"x", "X"}
    THEN LET h == 2 + RunLen(s, 2, HexDigit)
             m == IF HasAt(s, h, <<".">>)
                  THEN h + 1 + RunLen(s, h + 1, HexDigit)
                  ELSE h
         IN ReExponent(s, m, {"p", "P"})
    ELSE NoMatch

\* \A(==|~=|<=|>=)
ReCompoundOperator(s) ==
    IF Len(s) > 1 /\ s[1] \in {"=", "~", "<", ">"} /\ s[2] = "="
    THEN 2
    ELSE NoMatch

----------------------------------------------------------------------------
(* next_token and find_long_bracket_end.                                   *)

\* (a scan that takes any two closing brackets for the closer)
RECURSIVE LongBracketScanLevelZero(_, _, _)
LongBracketScanLevelZero(s, level, p) ==
    IF p + level + 2 < Len(s)
    THEN IF s[p + 1] = "]" /\ s[p + 2] = "]"
         THEN p
         ELSE LongBracketScanLevelZero(s, level, p + 1)
    ELSE p

RECURSIVE LongBracketScan(_, _, _)
LongBracketScan(s, level, p) ==
    IF p + level + 2 < Len(s)
    THEN IF /\ s[p + 1] = "]"
            /\ s[p + 1 + level + 1] = "]"
            /\ \A o \in 0..(level - 1) : s[p + 1 + o + 1] = "="
         THEN p
         ELSE LongBracketScan(s, level, p + 1)
    ELSE p

find_long_bracket_end(s, level) == LongBracketScan(s, level, 0) + 2 + level

\* (a scan that takes a backslash for an ordinary byte)
RECURSIVE StringScanNoEscape(_, _, _)
StringScanNoEscape(s, delim, pos) ==
    IF pos < Len(s)
    THEN IF s[pos + 1] = delim
         THEN pos + 1
         ELSE StringScanNoEscape(s, delim, pos + 1)
    ELSE pos

\* the while loop of the quoted-string branch: the end of the string token
RECURSIVE StringScan(_, _, _)
StringScan(s, delim, pos) ==
    IF pos < Len(s)
    THEN LET c == s[pos + 1]
             pos1 == pos + 1
         IN IF c = delim
            THEN pos1
            ELSE IF c = "\\" /\ pos1 < Len(s)
                 THEN StringScan(s, delim, pos1 + 1)
                 ELSE StringScan(s, delim, pos1)
    ELSE pos

TokenResult(type, rest, len, start) ==
    [type |-> type, text |-> Take(rest, len), start |-> start,
     offset |-> start + len]

next_token(src, offset) ==
    LET ws == ReWhiteSpace(Drop(src, offset))
        start == IF ws # NoMatch THEN offset + ws ELSE offset
        rest == Drop(src, start)
    IN IF ReLongBracketComment(rest) # NoMatch
       THEN TokenResult("Comment", rest,
                find_long_bracket_end(rest, ReLongBracketComment(rest) - 4),
                start)
       ELSE IF ReComment(rest) # NoMatch
       THEN TokenResult("Comment", rest, ReComment(rest), start)
       ELSE IF ReIdentifier(rest) # NoMatch
       THEN TokenResult("Identifier", rest, ReIdentifier(rest), start)
       ELSE IF ReHexNumber(rest) # NoMatch
       THEN TokenResult("HexNumber", rest, ReHexNumber(rest), start)
       ELSE IF ReNumber(rest) # NoMatch
       THEN TokenResult("Number", rest, ReNumber(rest), start)
       ELSE IF Len(rest) > 0 /\ rest[1] \in {"\"", "'"}
       THEN TokenResult("String", rest, StringScan(rest, rest[1], 1), start)
       ELSE IF ReLongBracket(rest) # NoMatch
       THEN TokenResult("Other", rest,
                find_long_bracket_end(rest, ReLongBracket(rest) - 2), start)
       ELSE IF ReCompoundOperator(rest) # NoMatch
       THEN TokenResult("Other", rest, ReCompoundOperator(rest), start)
       ELSE IF Len(rest) > 0
       THEN TokenResult("Other", rest, 1, start)
       ELSE TokenResult("EOF", rest, 0, start)

----------------------------------------------------------------------------
(* The token tree (enum TreeToken).                                        *)

Token(type, offset, text) ==
    [kind |-> "Token", type |-> type, offset |-> offset, text |-> text]
SubTree(sub) == [kind |-> "SubTree", tt |-> sub]
CodeString(sub, delim) == [kind |-> "CodeString", tt |-> sub, delim |-> delim]

\* TreeToken::text
TextOf(t) == IF t.kind = "Token" THEN t.text ELSE <<>>

kwFunction == <<"f","u","n","c","t","i","o","n">>
kwDo == <<"d","o">>
kwIf == <<"i","f">>
kwEnd == <<"e","n","d">>
kwLoad == <<"l","o","a","d">>

----------------------------------------------------------------------------
(* parse: parse_subtree, then parse_load_functions.                        *)

\* the loop of parse_subtree; returns the tokens and the cursor it stopped at
RECURSIVE parse_subtree(_, _, _)

\* one turn of the loop, on the token t that next_token has read
ParseTurn(tokens, src, t) ==
    LET tok == Token(t.type, t.start, t.text)
    IN IF t.type = "EOF"
       THEN [tokens |-> tokens, offset |-> t.offset]
       ELSE IF t.type = "Identifier" /\ t.text = kwFunction
       THEN LET sub == parse_subtree(<<tok>>, src, t.offset)
            IN parse_subtree(Append(tokens, SubTree(sub.tokens)), src, sub.offset)
       ELSE IF t.type = "Identifier" /\ t.text \in {kwDo, kwIf}
       THEN LET sub == parse_subtree(Append(tokens, tok), src, t.offset)
            IN parse_subtree(sub.tokens, src, sub.offset)
       ELSE IF t.type = "Identifier" /\ t.text = kwEnd
       THEN [tokens |-> Append(tokens, tok), offset |-> t.offset]
       ELSE parse_subtree(Append(tokens, tok), src, t.offset)

parse_subtree(tokens, src, offset) ==
    ParseTurn(tokens, src, next_token(src, offset))

\* \A--\s*code\s+string
ReCodeStringComment(s) ==
    /\ HasAt(s, 0, <<"-", "-">>)
    /\ LET p == 2 + RunLen(s, 2, WhiteSpace)
       IN /\ HasAt(s, p, <<"c","o","d","e">>)
          /\ RunLen(s, p + 4, WhiteSpace) > 0
          /\ HasAt(s, p + 4 + RunLen(s, p + 4, WhiteSpace),
                   <<"s","t","r","i","n","g">>)

\* the escape table of make_code_string
Unescape(o) ==
    CASE o = "n" -> "\n"
      [] o = "r" -> "\r"
      [] o = "t" -> "\t"
      [] OTHER -> o

\* the while loop of make_code_string: the unescaped bytes and, for each of
\* them, the offset in the original input it came from
RECURSIVE UnescapeLoop(_, _, _, _, _)
UnescapeLoop(text, offset, pos, bytes, offset_map) ==
    IF pos + 1 < Len(text)
    THEN IF text[pos + 1] = "\\"
         THEN UnescapeLoop(text, offset, pos + 2,
                           Append(bytes, Unescape(text[pos + 2])),
                           Append(offset_map, offset + pos))
         ELSE UnescapeLoop(text, offset, pos + 1,
                           Append(bytes, text[pos + 1]),
                           Append(offset_map, offset + pos))
    ELSE [code |-> bytes, offset_map |-> offset_map]

RECURSIVE remap(_, _)
remap(tree, offset_map) ==
    [i \in 1..Len(tree) |->
        IF tree[i].kind = "Token"
        THEN [tree[i] EXCEPT !.offset = offset_map[tree[i].offset + 1]]
        ELSE [tree[i] EXCEPT !.tt = remap(tree[i].tt, offset_map)]]

RECURSIVE parse(_)
RECURSIVE parse_load_functions(_)
RECURSIVE LoadLoop(_, _, _)

make_code_string(text, offset) ==
    LET u == UnescapeLoop(text, offset, 1, <<>>, <<>>)
        sub_tt == remap(parse(u.code), u.offset_map)
    IN CodeString(parse_load_functions(sub_tt), text[1])

\* the while loop of parse_load_functions
LoadLoop(tree, index, new_tt) ==
    IF index < Len(tree)
    THEN LET token == tree[index + 1]
             hasNext == index + 1 < Len(tree)
             next == tree[index + 2]
             nextIsString == /\ hasNext
                             /\ next.kind = "Token"
                             /\ next.type = "String"
         IN IF /\ token.kind = "Token" /\ token.type = "Identifier"
               /\ nextIsString /\ token.text = kwLoad
            THEN LoadLoop(tree, index + 2,
                     new_tt \o <<token, make_code_string(next.text, next.offset)>>)
            ELSE IF /\ token.kind = "Token" /\ token.type = "Comment"
                    /\ nextIsString /\ ReCodeStringComment(token.text)
            THEN LoadLoop(tree, index + 2,
                     Append(new_tt, make_code_string(next.text, next.offset)))
            ELSE LoadLoop(tree, index + 1, Append(new_tt, token))
    ELSE new_tt

parse_load_functions(tree) == LoadLoop(tree, 0, <<>>)

parse(src) == parse_load_functions(parse_subtree(<<>>, src, 0).tokens)

----------------------------------------------------------------------------
(* Directives and renames.                                                 *)

\* ^--\s*rename\s*(\w+)\s*->\s*(\w+)\s*$ : the two captures, or <<>>
ReRename(s) ==
    IF ~HasAt(s, 0, <<"-", "-">>) THEN <<>>
    ELSE LET p1 == 2 + RunLen(s, 2, WhiteSpace)
         IN IF ~HasAt(s, p1, <<"r","e","n","a","m","e">>) THEN <<>>
            ELSE LET p2 == p1 + 6 + RunLen(s, p1 + 6, WhiteSpace)
                     w1 == RunLen(s, p2, WordChar)
                     p3 == p2 + w1 + RunLen(s, p2 + w1, WhiteSpace)
                     p4 == p3 + 2 + RunLen(s, p3 + 2, WhiteSpace)
                     w2 == RunLen(s, p4, WordChar)
                     p5 == p4 + w2 + RunLen(s, p4 + w2, WhiteSpace)
                 IN IF /\ w1 > 0
                       /\ HasAt(s, p3, <<"-", ">">>)
                       /\ w2 > 0
                       /\ p5 = Len(s)
                    THEN <<SubSeq(s, p2 + 1, p2 + w1), SubSeq(s, p4 + 1, p4 + w2)>>
                    ELSE <<>>

\* BTreeMap::insert
MapInsert(m, k, v) ==
    [x \in DOMAIN m \cup {k} |-> IF x = k THEN v ELSE m[x]]

EmptyMap == [x \in {} |-> <<>>]

IsRenameComment(tok) ==
    /\ tok.kind = "Token"
    /\ tok.type = "Comment"
    /\ ReRename(tok.text) # <<>>

\* find_renames: retain over the top-level sequence only
RECURSIVE FindRenamesLoop(_, _, _, _)
FindRenamesLoop(tree, i, kept, rn) ==
    IF i > Len(tree) THEN [tt |-> kept, renames |-> rn]
    ELSE IF IsRenameComment(tree[i])
         THEN LET caps == ReRename(tree[i].text)
              IN FindRenamesLoop(tree, i + 1, kept, MapInsert(rn, caps[1], caps[2]))
         ELSE FindRenamesLoop(tree, i + 1, Append(kept, tree[i]), rn)

find_renames(tree) == FindRenamesLoop(tree, 1, <<>>, EmptyMap)

\* apply_renames leaving code strings as they are
RECURSIVE apply_renames_skipping_code_strings(_, _)
apply_renames_skipping_code_strings(tree, rn) ==
    [i \in 1..Len(tree) |->
        LET token == tree[i]
        IN IF token.kind = "Token"
           THEN IF token.type = "Identifier" /\ token.text \in DOMAIN rn
                THEN Token("Identifier", 0, rn[token.text])
                ELSE token
           ELSE IF token.kind = "SubTree"
           THEN SubTree(apply_renames_skipping_code_strings(token.tt, rn))
           ELSE token]

RECURSIVE apply_renames(_, _)
apply_renames(tree, rn) ==
    [i \in 1..Len(tree) |->
        LET token == tree[i]
        IN IF token.kind = "Token"
           THEN IF token.type = "Identifier" /\ token.text \in DOMAIN rn
                THEN Token("Identifier", 0, rn[token.text])
                ELSE token
           ELSE IF token.kind = "SubTree"
           THEN SubTree(apply_renames(token.tt, rn))
           ELSE CodeString(apply_renames(token.tt, rn), token.delim)]

\* ^--\s*transform\s*to\s*load\s*$
ReTransformToLoad(s) ==
    /\ HasAt(s, 0, <<"-", "-">>)
    /\ LET p1 == 2 + RunLen(s, 2, WhiteSpace)
           p2 == p1 + 9 + RunLen(s, p1 + 9, WhiteSpace)
           p3 == p2 + 2 + RunLen(s, p2 + 2, WhiteSpace)
           p4 == p3 + 4 + RunLen(s, p3 + 4, WhiteSpace)
       IN /\ HasAt(s, p1, <<"t","r","a","n","s","f","o","r","m">>)
          /\ HasAt(s, p2, <<"t","o">>)
          /\ HasAt(s, p3, kwLoad)
          /\ p4 = Len(s)

\* (the shape test without the test for an empty parameter list)
IsNamedFunction(sub_tt) ==
    /\ Len(sub_tt) >= 5
    /\ TextOf(sub_tt[1]) = kwFunction
    /\ TextOf(sub_tt[2]) # <<>>
    /\ TextOf(sub_tt[Len(sub_tt)]) = kwEnd

\* the function-shape test of apply_transform_to_load
IsParameterlessFunction(sub_tt) ==
    /\ Len(sub_tt) >= 5
    /\ TextOf(sub_tt[1]) = kwFunction
    /\ TextOf(sub_tt[2]) # <<>>
    /\ TextOf(sub_tt[3]) = <<"(">>
    /\ TextOf(sub_tt[4]) = <<")">>
    /\ TextOf(sub_tt[Len(sub_tt)]) = kwEnd

RECURSIVE TransformLoop(_, _, _, _)
TransformLoop(tree, i, new_tt, transform_next) ==
    IF i > Len(tree) THEN new_tt
    ELSE LET token == tree[i]
         IN IF token.kind = "Token" /\ token.type = "Comment"
            THEN IF ReTransformToLoad(token.text)
                 THEN TransformLoop(tree, i + 1, new_tt, TRUE)
                 ELSE TransformLoop(tree, i + 1, Append(new_tt, token),
                                    transform_next)
            ELSE IF token.kind = "SubTree"
                    /\ transform_next /\ IsParameterlessFunction(token.tt)
            THEN TransformLoop(tree, i + 1,
                    new_tt \o <<Token("Identifier", 0, TextOf(token.tt[2])),
                                Token("Other", 0, <<"=">>),
                                Token("Identifier", 0, kwLoad),
                                CodeString(SubSeq(token.tt, 5, Len(token.tt) - 1),
                                           "\"")>>,
                    FALSE)
            ELSE TransformLoop(tree, i + 1, Append(new_tt, token), transform_next)

apply_transform_to_load(tree) == TransformLoop(tree, 1, <<>>, FALSE)

\* Program::parse
\* found is what find_renames returned: the tree without the directives, and
\* the renames they gave
WithRenames(found) ==
    [tt |-> apply_transform_to_load(apply_renames(found.tt, found.renames)),
     renames |-> found.renames]

ProgramParse(src) == WithRenames(find_renames(parse(src)))

----------------------------------------------------------------------------
(* DelimStack and serialize.                                               *)

\* DelimStack::push: the innermost delimiter is first
DelimPush(stack, delim) == <<delim>> \o stack

\* DelimStack::encode, the bytes appended for one byte c
RECURSIVE encode(_, _)
encode(c, stack) ==
    IF stack # <<>>
    THEN (IF c = "\\" \/ c = stack[1] THEN encode("\\", Tail(stack)) ELSE <<>>)
         \o encode(c, Tail(stack))
    ELSE <<c>>

\* DelimStack::encode_length
RECURSIVE encode_length(_, _)
encode_length(c, stack) ==
    IF stack # <<>>
    THEN (IF c = "\\" \/ c = stack[1] THEN encode_length("\\", Tail(stack)) ELSE 0)
         + encode_length(c, Tail(stack))
    ELSE 1

\* for &c in text { delim_stack.encode(code, c) }
EncodeText(text, stack) ==
    Flatten([k \in 1..Len(text) |-> encode(text[k], stack)])

\* NeedsSeparator separating every token that follows an identifier
NeedsSeparatorAfterEveryIdentifier(last_type, last_text, text) ==
    \/ last_type = "Identifier"
    \/ /\ last_type = "Number"
       /\ \/ text[1] = "."
          \/ text[1] \in HexDigit
          \/ /\ to_ascii_lowercase(text[1]) = "x"
             /\ (last_text = <<"0">> \/ last_text = <<".", "0">>)
    \/ /\ last_type = "HexNumber"
       /\ \/ text[1] = "."
          \/ text[1] \in HexDigit
          \/ to_ascii_lowercase(text[1]) = "p"

\* NeedsSeparator without the exponent mark after a hex number
NeedsSeparatorNoHexExponent(last_type, last_text, text) ==
    \/ /\ last_type = "Identifier"
       /\ (text[1] = "_" \/ text[1] \in AlphaNum)
    \/ /\ last_type = "Number"
       /\ \/ text[1] = "."
          \/ text[1] \in HexDigit
          \/ /\ to_ascii_lowercase(text[1]) = "x"
             /\ (last_text = <<"0">> \/ last_text = <<".", "0">>)
    \/ /\ last_type = "HexNumber"
       /\ \/ text[1] = "."
          \/ text[1] \in HexDigit

\* the match on last_token.type_ that decides code.push(ws)
NeedsSeparator(last_type, last_text, text) ==
    \/ /\ last_type = "Identifier"
       /\ (text[1] = "_" \/ text[1] \in AlphaNum)
    \/ /\ last_type = "Number"
       /\ \/ text[1] = "."
          \/ text[1] \in HexDigit
          \/ /\ to_ascii_lowercase(text[1]) = "x"
             /\ (last_text = <<"0">> \/ last_text = <<".", "0">>)
    \/ /\ last_type = "HexNumber"
       /\ \/ text[1] = "."
          \/ text[1] \in HexDigit
          \/ to_ascii_lowercase(text[1]) = "p"

\* the state of serialize's walk: the bytes emitted, last_token, the
\* tokens of the current sequence rewritten so far, and the offsets at
\* which code.push(ws) ran
SerState(bytes, last_type, last_text, done, seps) ==
    [code |-> bytes, last_type |-> last_type, last_text |-> last_text,
     tt |-> done, seps |-> seps]

\* EmitToken recording the offset before the separator is pushed
EmitTokenOffsetBeforeSeparator(st, token, ws, delim_stack) ==
    LET sep == NeedsSeparator(st.last_type, st.last_text, token.text)
        pre == IF sep THEN Append(st.code, ws) ELSE st.code
    IN SerState(pre \o EncodeText(token.text, delim_stack),
                token.type, token.text,
                Append(st.tt, [token EXCEPT !.offset = Len(st.code)]),
                IF sep THEN Append(st.seps, Len(st.code)) ELSE st.seps)

\* the Token arm of serialize's inner for a token that is no comment:
\* the separator, *offset = code.len(), the encoded text, last_token
EmitToken(st, token, ws, delim_stack) ==
    LET sep == NeedsSeparator(st.last_type, st.last_text, token.text)
        pre == IF sep THEN Append(st.code, ws) ELSE st.code
    IN SerState(pre \o EncodeText(token.text, delim_stack),
                token.type, token.text,
                Append(st.tt, [token EXCEPT !.offset = Len(pre)]),
                IF sep THEN Append(st.seps, Len(st.code)) ELSE st.seps)

\* (a serialiser that skips no token)
SkipsTokenNever(token) == FALSE

\* if type_ == TokenType::Comment { continue; }
SkipsToken(token) == token.type = "Comment"

\* serialize's inner, from element i of tree on
RECURSIVE SerializeInner(_, _, _, _, _)
SerializeInner(tree, i, st, ws, delim_stack) ==
    IF i > Len(tree) THEN st
    ELSE LET token == tree[i]
         IN IF token.kind = "Token"
            THEN IF SkipsToken(token)
                 THEN SerializeInner(tree, i + 1,
                          [st EXCEPT !.tt = Append(st.tt, token)],
                          ws, delim_stack)
                 ELSE LET emitted == EmitToken(st, token, ws, delim_stack)
                      IN \* the token is emitted before the loop goes on
                         IF Len(emitted.code) >= 0
                         THEN SerializeInner(tree, i + 1, emitted, ws,
                                             delim_stack)
                         ELSE st
            ELSE IF token.kind = "SubTree"
            THEN LET sub == SerializeInner(token.tt, 1,
                                [st EXCEPT !.tt = <<>>], ws, delim_stack)
                 IN SerializeInner(tree, i + 1,
                        [sub EXCEPT !.tt = Append(st.tt, SubTree(sub.tt))],
                        ws, delim_stack)
            ELSE LET open == [st EXCEPT
                                 !.code = st.code \o encode(token.delim, delim_stack),
                                 !.last_type = "Other",
                                 !.tt = <<>>]
                     sub == SerializeInner(token.tt, 1, open, ws,
                                           DelimPush(delim_stack, token.delim))
                 IN SerializeInner(tree, i + 1,
                        [sub EXCEPT
                            !.code = sub.code \o encode(token.delim, delim_stack),
                            !.tt = Append(st.tt, CodeString(sub.tt, token.delim))],
                        ws, delim_stack)

serialize(tree, ws) ==
    SerializeInner(tree, 1, SerState(<<>>, "Other", <<>>, <<>>, <<>>), ws, <<>>)

----------------------------------------------------------------------------
(* deflate.rs.  The bytes of the compressed stream and of the unpacked     *)
(* data are the integers 0..255.  An operation that can panic returns a  *)
(* record whose field ok tells whether it returned.                        *)

\* f32 values are kept as exact fractions <<numerator, denominator>> in
\* lowest terms with a positive denominator: the rounding of f32 is left out
RECURSIVE Gcd(_, _)
Gcd(a, b) == IF b = 0 THEN a ELSE Gcd(b, a % b)

Abs(a) == IF a < 0 THEN 0 - a ELSE a

F32(n, d) ==
    LET g == Gcd(Abs(n), d)
    IN <<n \div g, d \div g>>

F32Zero == F32(0, 1)

F32Add(x, y) ==
    LET l == (x[2] \div Gcd(x[2], y[2])) * y[2]
    IN F32(x[1] * (l \div x[2]) + y[1] * (l \div y[2]), l)

F32Sub(x, y) == F32Add(x, <<0 - y[1], y[2]>>)

\* x / k for a positive integer k
F32DivInt(x, k) ==
    LET g == Gcd(Abs(x[1]), k)
    IN <<x[1] \div g, x[2] * (k \div g)>>

\* usize::MAX, the literal_index of a byte emitted by a literal: an index
\* of the unpacked data is never negative, so -1 stands for it
UsizeMax == 0 - 1

Returned(b, v) == [ok |-> TRUE, bitstream |-> b, value |-> v]
Panicked(b) == [ok |-> FALSE, bitstream |-> b, value |-> 0]

\* Bitstream::new
BitstreamNew == [pos |-> 0, item_start |-> 0]

\* Bitstream::get_bit: bit (pos & 7) of byte (pos >> 3), least significant
\* bit first; the index panics past the end of the data
get_bit(d, b) ==
    IF b.pos \div 8 >= Len(d) THEN Panicked(b)
    ELSE Returned([b EXCEPT !.pos = @ + 1],
                  (d[b.pos \div 8 + 1] \div 2^(b.pos % 8)) % 2)

\* Bitstream::get_bits: bit i of the value is the i-th bit read
RECURSIVE GetBitsLoop(_, _, _, _, _)
GetBitsLoop(d, b, i, num_bits, value) ==
    IF i >= num_bits THEN Returned(b, value)
    ELSE LET g == get_bit(d, b)
         IN IF ~g.ok THEN g
            ELSE GetBitsLoop(d, g.bitstream, i + 1, num_bits,
                             value + g.value * 2^i)

get_bits(d, b, num_bits) == GetBitsLoop(d, b, 0, num_bits, 0)

\* (a take_item that reads on from the read position)
take_item_not_rewound(d, b) ==
    LET length == b.pos - b.item_start
        g == get_bits(d, b, length)
    IN IF length > 32 \/ ~g.ok THEN Panicked(b)
       ELSE Returned([g.bitstream EXCEPT !.item_start = g.bitstream.pos],
                     [pos |-> b.item_start, length |-> length,
                      bits |-> g.value])

\* Bitstream::take_item: the bits read since the last take_item
take_item(d, b) ==
    LET length == b.pos - b.item_start
        g == get_bits(d, [b EXCEPT !.pos = b.item_start], length)
    IN IF length > 32 \/ ~g.ok THEN Panicked(b)
       ELSE Returned([g.bitstream EXCEPT !.item_start = g.bitstream.pos],
                     [pos |-> b.item_start, length |-> length,
                      bits |-> g.value])

\* HuffmanBuilder::add_code
add_code(codes, c, num_bits) ==
    IF num_bits > 0 THEN Append(codes, <<c, num_bits>>) ELSE codes

\* HuffmanBuilder::add_codes on the range first..=last
add_codes(codes, first, last, num_bits) ==
    IF num_bits > 0
    THEN codes \o [k \in 1..(last - first + 1) |-> <<first + k - 1, num_bits>>]
    ELSE codes

SetMax(S) == CHOOSE m \in S : \A x \in S : x <= m

\* the codes of S of the lengths l..max_length, by length, then by value
RECURSIVE BuildFrom(_, _, _, _)
BuildFrom(S, by_value, l, max_length) ==
    IF l > max_length THEN <<>>
    ELSE LET vs == SelectSeq(by_value, LAMBDA v : <<v, l>> \in S)
         IN [k \in 1..Len(vs) |-> <<vs[k], l>>]
            \o BuildFrom(S, by_value, l + 1, max_length)

\* (a build that leaves the codes in the order they were added)
buildUnsorted(codes) == codes

\* HuffmanBuilder::build: the codes sorted by (length, value); no value is
\* added twice, so the order of equal keys does not matter
build(codes) ==
    IF codes = <<>> THEN <<>>
    ELSE LET S == {codes[i] : i \in 1..Len(codes)}
             max_value == SetMax({c[1] : c \in S})
             max_length == SetMax({c[2] : c \in S})
         IN BuildFrom(S, [k \in 1..(max_value + 1) |-> k - 1], 1, max_length)

\* the while loop of Huffman::read: read bits up to the length of the entry
RECURSIVE ReadUpTo(_, _, _, _, _)
ReadUpTo(d, b, c, num_bits, length) ==
    IF num_bits >= length THEN Returned(b, c)
    ELSE LET g == get_bit(d, b)
         IN IF ~g.ok THEN g
            ELSE ReadUpTo(d, g.bitstream, c * 2 + g.value, num_bits + 1, length)

\* Huffman::read from entry i on.  The entries from i on whose length is
\* within the bits read take no further bit: each of them returns if the
\* code is 0 and takes 1 off it otherwise, so the code picks among them
RECURSIVE HuffmanReadLoop(_, _, _, _, _, _)
HuffmanReadLoop(codes, i, d, b, c, num_bits) ==
    IF i > Len(codes) THEN Panicked(b)
    ELSE LET length == codes[i][2]
             w == ReadUpTo(d, b, c, num_bits, length)
             read == IF num_bits < length THEN length ELSE num_bits
             longer == {q \in i..Len(codes) : codes[q][2] > read}
             next == IF longer = {} THEN Len(codes) + 1
                     ELSE CHOOSE q \in longer : \A r \in longer : q <= r
         IN IF ~w.ok THEN w
            ELSE IF w.value < next - i
            THEN Returned(w.bitstream, codes[i + w.value][1])
            ELSE HuffmanReadLoop(codes, next, d, w.bitstream,
                                 w.value - (next - i), read)

HuffmanRead(codes, d, b) == HuffmanReadLoop(codes, 1, d, b, 0, 0)

\* the tables of a static block
StaticLitLength ==
    build(add_codes(add_codes(add_codes(add_codes(<<>>,
        0, 143, 8), 144, 255, 9), 256, 279, 7), 280, 287, 8))

StaticDistance == build(add_codes(<<>>, 0, 31, 5))

\* the order of the code lengths of the code length alphabet
HeaderOrder ==
    <<16, 17, 18, 0, 8, 7, 9, 6, 10, 5, 11, 4, 12, 3, 13, 2, 14, 1, 15>>

\* (extra_bits, base_length) of the length symbols 257, 258, ...
LengthTable ==
    << <<0, 3>>, <<0, 4>>, <<0, 5>>, <<0, 6>>, <<0, 7>>, <<0, 8>>, <<0, 9>>,
       <<0, 10>>, <<1, 11>>, <<1, 13>>, <<1, 15>>, <<1, 17>>, <<2, 19>>,
       <<2, 23>>, <<2, 27>>, <<2, 31>>, <<3, 35>>, <<3, 43>>, <<3, 51>>,
       <<3, 59>>, <<4, 67>>, <<4, 83>>, <<4, 99>>, <<5, 131>>, <<5, 163>>,
       <<5, 195>>, <<5, 227>>, <<0, 258>> >>

\* (extra_bits, base_distance) of the distance symbols 0, 1, ...
DistanceTable ==
    << <<0, 1>>, <<0, 2>>, <<0, 3>>, <<0, 4>>, <<1, 5>>, <<1, 7>>, <<2, 9>>,
       <<2, 13>>, <<3, 17>>, <<3, 25>>, <<4, 33>>, <<4, 49>>, <<5, 65>>,
       <<5, 97>>, <<6, 129>>, <<6, 193>>, <<7, 257>>, <<7, 385>>, <<8, 513>>,
       <<8, 769>>, <<9, 1025>>, <<9, 1537>>, <<10, 2049>>, <<10, 3073>>,
       <<11, 4097>>, <<11, 6145>>, <<12, 8193>>, <<12, 12289>>,
       <<13, 16385>>, <<13, 24577>> >>

\* the loop over the first n entries of the order: 3 bits for each
RECURSIVE HeaderLengthsLoop(_, _, _, _, _, _)
HeaderLengthsLoop(d, b, k, n, huff_header, huff_header_lengths) ==
    IF k > n
    THEN Returned(b, [huff_header |-> huff_header,
                      huff_header_lengths |-> huff_header_lengths])
    ELSE LET length == get_bits(d, b, 3)
             item == take_item(d, length.bitstream)
         IN IF ~length.ok \/ ~item.ok THEN Panicked(b)
            ELSE HeaderLengthsLoop(d, item.bitstream, k + 1, n,
                     add_code(huff_header, HeaderOrder[k], length.value),
                     Append(huff_header_lengths,
                            <<HeaderOrder[k], length.value, item.value>>))

\* for _ in 0..count { huff_lengths[pos] = value; pos += 1 }
Fill(huff_lengths, pos, count, value) ==
    [k \in 1..Len(huff_lengths) |->
        IF pos < k /\ k <= pos + count THEN value ELSE huff_lengths[k]]

\* while pos < huff_lengths.len(): one code of the code length alphabet a
\* turn; an index past the end of huff_lengths, or before its start for a
\* repeat at pos = 0, panics
RECURSIVE CodeLengthsLoop(_, _, _, _, _, _)
CodeLengthsLoop(d, b, huff_header, huff_lengths, pos, huff_header_codes) ==
    IF pos >= Len(huff_lengths)
    THEN Returned(b, [huff_lengths |-> huff_lengths,
                      huff_header_codes |-> huff_header_codes])
    ELSE
    LET c == HuffmanRead(huff_header, d, b)
        huff_item == take_item(d, c.bitstream)
        extra == get_bits(d, huff_item.bitstream,
                          IF c.value = 16 THEN 2 ELSE IF c.value = 17 THEN 3 ELSE 7)
        count == extra.value + (IF c.value = 18 THEN 11 ELSE 3)
        count_item == take_item(d, extra.bitstream)
    IN IF ~c.ok \/ ~huff_item.ok THEN Panicked(b)
       ELSE IF c.value \in {16, 17, 18}
       THEN IF \/ ~extra.ok \/ ~count_item.ok
               \/ pos + count > Len(huff_lengths)
               \/ (c.value = 16 /\ pos = 0)
            THEN Panicked(b)
            ELSE CodeLengthsLoop(d, count_item.bitstream, huff_header,
                     Fill(huff_lengths, pos, count,
                          IF c.value = 16 THEN huff_lengths[pos] ELSE 0),
                     pos + count,
                     Append(huff_header_codes,
                            [kind |-> IF c.value = 16 THEN "Repeat" ELSE "Skip",
                             huff_item |-> huff_item.value,
                             count_item |-> count_item.value,
                             count |-> count]))
       ELSE CodeLengthsLoop(d, huff_item.bitstream, huff_header,
                Fill(huff_lengths, pos, 1, c.value), pos + 1,
                Append(huff_header_codes,
                       [kind |-> "Length", huff_item |-> huff_item.value,
                        length |-> c.value]))

\* for code in 0..n { builder.add_code(code, huff_lengths[first + code]) }
AddCodesOf(huff_lengths, first, n) ==
    SelectSeq([k \in 1..n |-> <<k - 1, huff_lengths[first + k]>>],
              LAMBDA c : c[2] > 0)

\* the header of a dynamic block, after the three bits of the block header
DynamicHeader(d, b, final_bit, header_item) ==
    LET hlit == get_bits(d, b, 5)
        hdist == get_bits(d, hlit.bitstream, 5)
        hclen == get_bits(d, hdist.bitstream, 4)
        huff_header_item == take_item(d, hclen.bitstream)
        hl == HeaderLengthsLoop(d, huff_header_item.bitstream, 1,
                                hclen.value + 4, <<>>, <<>>)
        cl == CodeLengthsLoop(d, hl.bitstream, build(hl.value.huff_header),
                  [k \in 1..(hlit.value + 257 + hdist.value + 1) |-> 0],
                  0, <<>>)
    IN IF ~hlit.ok \/ ~hdist.ok \/ ~hclen.ok \/ ~huff_header_item.ok
       THEN Panicked(b)
       ELSE IF ~hl.ok \/ ~cl.ok THEN Panicked(b)
       ELSE Returned(cl.bitstream,
                [is_final |-> final_bit,
                 header_item |-> header_item,
                 block_type |->
                    [kind |-> "DynamicHuffman",
                     huff_header_item |-> huff_header_item.value,
                     hlit |-> hlit.value, hdist |-> hdist.value,
                     hclen |-> hclen.value,
                     huff_header_lengths |-> hl.value.huff_header_lengths,
                     huff_header_codes |-> cl.value.huff_header_codes],
                 huff_lit_length |->
                    build(AddCodesOf(cl.value.huff_lengths, 0,
                                     hlit.value + 257)),
                 huff_distance |->
                    build(AddCodesOf(cl.value.huff_lengths,
                                     hlit.value + 257, hdist.value + 1))])

\* the head of the block loop of analyze, up to the call of decode_block;
\* a block type other than 1 and 2 panics
BlockHeader(d, b) ==
    LET final == get_bit(d, b)
        block_type == get_bits(d, final.bitstream, 2)
        header_item == take_item(d, block_type.bitstream)
    IN IF ~final.ok \/ ~block_type.ok \/ ~header_item.ok THEN Panicked(b)
       ELSE IF block_type.value = 1
       THEN Returned(header_item.bitstream,
                [is_final |-> final.value = 1,
                 header_item |-> header_item.value,
                 block_type |-> [kind |-> "StaticHuffman"],
                 huff_lit_length |-> StaticLitLength,
                 huff_distance |-> StaticDistance])
       ELSE IF block_type.value = 2
       THEN DynamicHeader(d, header_item.bitstream, final.value = 1,
                          header_item.value)
       ELSE Panicked(b)

\* AnalysisData
AnalysisData(unpacked, literal_index, cost) ==
    [unpacked |-> unpacked, literal_index |-> literal_index, cost |-> cost]

\* OriginOf without following the origin of a byte that was itself copied
OriginOfUnresolved(an, src) == src

\* the index a byte copied from src is charged to: the origin of the byte at
\* src, or src itself if a literal emitted that byte

OriginOf(an, src) ==
    IF an.literal_index[src + 1] = UsizeMax THEN src
    ELSE an.literal_index[src + 1]

\* the copy loop of a match: for i in 0..length
RECURSIVE CopyLoop(_, _, _, _, _)
CopyLoop(an, copy_base, i, length, cost) ==
    IF i >= length THEN an
    ELSE CopyLoop(
            AnalysisData(Append(an.unpacked, an.unpacked[copy_base + i + 1]),
                         Append(an.literal_index, OriginOf(an, copy_base + i)),
                         Append(an.cost, cost)),
            copy_base, i + 1, length, cost)

\* (a cost that leaves the extra bits of the match out)
MatchCostNoExtraBits(lit_length_item, length_ext, offset_base, offset_ext, length) ==
    F32(lit_length_item.length + offset_base.length, length)

\* the cost of each byte of a match: the bits of its four items over its
\* length

MatchCost(lit_length_item, length_ext, offset_base, offset_ext, length) ==
    F32(lit_length_item.length + length_ext.length + offset_base.length
            + offset_ext.length,
        length)

DecodeResult(ok, b, an, item) ==
    [ok |-> ok, bitstream |-> b, data |-> an, item |-> item]

\* the match branch of decode_block; an index past the end of a table, and
\* a distance that reaches before the start of the unpacked data, panic
DecodeMatch(d, lit_length, lit_length_item, an, dist_table) ==
    LET b == lit_length_item.bitstream
        le == LengthTable[lit_length - 257 + 1]
        length_bits == get_bits(d, b, le[1])
        length == le[2] + length_bits.value
        length_ext == take_item(d, length_bits.bitstream)
        offset_index == HuffmanRead(dist_table, d, length_ext.bitstream)
        offset_base == take_item(d, offset_index.bitstream)
        de == DistanceTable[offset_index.value + 1]
        distance_bits == get_bits(d, offset_base.bitstream, de[1])
        distance == de[2] + distance_bits.value
        offset_ext == take_item(d, distance_bits.bitstream)
        cost == MatchCost(lit_length_item.value, length_ext.value,
                          offset_base.value, offset_ext.value, length)
        copy_base == Len(an.unpacked) - distance
    IN IF lit_length - 257 >= Len(LengthTable)
       THEN DecodeResult(FALSE, b, an, <<>>)
       ELSE IF ~length_bits.ok \/ ~length_ext.ok \/ ~offset_index.ok
               \/ ~offset_base.ok
       THEN DecodeResult(FALSE, b, an, <<>>)
       ELSE IF offset_index.value >= Len(DistanceTable)
       THEN DecodeResult(FALSE, b, an, <<>>)
       ELSE IF ~distance_bits.ok \/ ~offset_ext.ok \/ copy_base < 0
       THEN DecodeResult(FALSE, b, an, <<>>)
       ELSE DecodeResult(TRUE, offset_ext.bitstream,
                CopyLoop(an, copy_base, 0, length, cost),
                [kind |-> "Match", length |-> length, offset |-> distance,
                 length_base |-> lit_length_item.value,
                 length_ext |-> length_ext.value,
                 offset_base |-> offset_base.value,
                 offset_ext |-> offset_ext.value])

\* one turn of the loop of decode_block
DecodeStep(d, b, an, lit_table, dist_table) ==
    LET lit_length == HuffmanRead(lit_table, d, b)
        lit_length_item == take_item(d, lit_length.bitstream)
    IN IF ~lit_length.ok \/ ~lit_length_item.ok
       THEN DecodeResult(FALSE, b, an, <<>>)
       ELSE IF lit_length.value = 256
       THEN DecodeResult(TRUE, lit_length_item.bitstream, an,
                [kind |-> "EndOfBlock", item |-> lit_length_item.value])
       ELSE IF lit_length.value < 256
       THEN DecodeResult(TRUE, lit_length_item.bitstream,
                AnalysisData(Append(an.unpacked, lit_length.value),
                             Append(an.literal_index, UsizeMax),
                             Append(an.cost,
                                    F32(lit_length_item.value.length, 1))),
                [kind |-> "Literal", item |-> lit_length_item.value,
                 byte |-> lit_length.value])
       ELSE DecodeMatch(d, lit_length.value, lit_length_item, an,
                        dist_table)

\* (a pass that counts no reference)
RefCountUncounted(an, index) == 0

\* ref_count of the byte at index: the bytes a match copied from it
RefCount(an, index) ==
    Cardinality({i \in 1..Len(an.literal_index) :
                    an.literal_index[i] = index})

\* Shift without taking delta from the origin
ShiftWithoutOrigin(shifted, index, delta) == Append(shifted, delta)

\* shifted.push(delta); shifted[index] -= delta

Shift(shifted, index, delta) ==
    [Append(shifted, delta) EXCEPT ![index + 1] = F32Sub(@, delta)]

\* the turns lo..hi (1-based) of the loop that fills shifted, in order: the
\* first half of the turns, then the second half
RECURSIVE ShiftedRange(_, _, _, _)
ShiftedRange(an, lo, hi, shifted) ==
    IF lo > hi THEN shifted
    ELSE IF lo = hi
    THEN LET index == an.literal_index[lo]
             delta == F32DivInt(F32Sub(an.cost[index + 1], an.cost[lo]),
                                RefCount(an, index) + 1)
         IN IF index # UsizeMax THEN Shift(shifted, index, delta)
            ELSE Append(shifted, F32Zero)
    ELSE LET mid == (lo + hi) \div 2
             first == ShiftedRange(an, lo, mid, shifted)
         IN IF Len(first) >= 0 THEN ShiftedRange(an, mid + 1, hi, first)
            ELSE first

\* the loop that fills shifted, from position i (1-based) on
ShiftedLoop(an, i, shifted) ==
    ShiftedRange(an, i, Len(an.literal_index), shifted)

\* the redistribution pass at the end of analyze
Redistributed(an) ==
    LET shifted == ShiftedLoop(an, 1, <<>>)
    IN [an EXCEPT !.cost =
            [i \in 1..Len(an.cost) |-> F32Add(an.cost[i], shifted[i])]]

----------------------------------------------------------------------------
(* Rename candidates (Program::get_rename_candidates).                     *)

\* the entry points called by the host, never renameable
EntryPoints == {<<"T","I","C">>, <<"S","C","N">>, <<"O","V","R">>}

\* no identifier is taken for an entry point
IsEntryPointNever(id_name) == FALSE

\* b"TIC" | b"SCN" | b"OVR" => ()
IsEntryPoint(id_name) == id_name \in EntryPoints

\* find_renamable_identifiers: the pairs (tt[index], tt.get(index + 1)) of
\* every token list of the tree
RECURSIVE find_renamable_identifiers(_)
find_renamable_identifiers(tree) ==
    UNION {LET token == tree[index]
               follower == IF index < Len(tree) THEN tree[index + 1]
                           ELSE [kind |-> "None"]
           IN IF token.kind = "Token"
              THEN IF /\ token.type = "Identifier"
                      /\ follower.kind = "Token"
                      /\ follower.type = "Other"
                      /\ follower.text = <<"=">>
                   THEN IF IsEntryPoint(token.text) THEN {}
                        ELSE {token.text}
                   ELSE IF /\ token.type = "Identifier"
                           /\ follower.kind = "Token"
                           /\ follower.type = "Identifier"
                           /\ token.text = kwFunction
                   THEN IF IsEntryPoint(follower.text) THEN {}
                        ELSE {follower.text}
                   ELSE {}
              ELSE find_renamable_identifiers(token.tt) :
           index \in 1..Len(tree)}

\* struct RenameCandidates
RenameCandidates(renameable, fixed, candidate_chars) ==
    [renameable |-> renameable, fixed |-> fixed,
     candidate_chars |-> candidate_chars]

\* candidates.renameable.entry(text).or_default().push(offset)
PushOffset(renameable, text, offset) ==
    [x \in DOMAIN renameable \cup {text} |->
        IF x = text
        THEN (IF text \in DOMAIN renameable THEN renameable[text] ELSE <<>>)
             \o <<offset>>
        ELSE renameable[x]]

\* the bytes of a fixed identifier: offset + i for every i where text[i]
\* can start an identifier
FixedCharOffsets(text, offset) ==
    SelectSeq([i \in 1..Len(text) |-> offset + i - 1],
              LAMBDA o : is_valid_ident_start(text[o - offset + 1]))

\* (the bytes of any other token with the escapes not counted)
OtherCharOffsetsUnescaped(text, offset, delim_stack) ==
    FixedCharOffsets(text, offset)

\* the bytes of any other token: the offset skips the escapes in front of
\* each byte
OtherCharOffsets(text, offset, delim_stack) ==
    LET lengths == [k \in 1..Len(text) |->
                       encode_length(text[k], delim_stack)]
        starts == SelectSeq([k \in 1..Len(text) |-> k],
                            LAMBDA k : is_valid_ident_start(text[k]))
    IN [i \in 1..Len(starts) |->
          offset + SeqSum(lengths, 1, starts[i]) - 1]

\* fn inner of get_rename_candidates
RECURSIVE CandidatesInner(_, _, _, _)
CandidatesInner(candidates, tree, renameable_ids, delim_stack) ==
    IF tree = <<>> THEN candidates
    ELSE LET token == Head(tree)
             after ==
               IF token.kind = "Token"
               THEN IF token.type = "Comment" THEN candidates
                    ELSE IF token.type = "Identifier"
                    THEN IF token.text \in renameable_ids
                         THEN [candidates EXCEPT !.renameable =
                                 PushOffset(@, token.text, token.offset)]
                         ELSE [candidates EXCEPT
                                 !.fixed = @ \cup {token.text},
                                 !.candidate_chars = @ \o
                                   FixedCharOffsets(token.text, token.offset)]
                    ELSE [candidates EXCEPT !.candidate_chars = @ \o
                            OtherCharOffsets(token.text, token.offset,
                                             delim_stack)]
               ELSE IF token.kind = "SubTree"
               THEN CandidatesInner(candidates, token.tt, renameable_ids,
                                    delim_stack)
               ELSE CandidatesInner(candidates, token.tt, renameable_ids,
                                    DelimPush(delim_stack, token.delim))
         IN CandidatesInner(after, Tail(tree), renameable_ids, delim_stack)

get_rename_candidates(tree) ==
    CandidatesInner(RenameCandidates(EmptyMap, {}, <<>>), tree,
                    find_renamable_identifiers(tree), <<>>)

----------------------------------------------------------------------------
(* The rename search of main.rs: compute_rename_suggestions and            *)
(* merge_renames.                                                          *)

\* the ASCII bytes 32 to 95 and 97 to 126 in order
Printable ==
    <<" ","!","\"","#","$","%","&","'","(",")","*","+",",","-",".","/",
      "0","1","2","3","4","5","6","7","8","9",":",";","<","=",">","?",
      "@","A","B","C","D","E","F","G","H","I","J","K","L","M","N","O",
      "P","Q","R","S","T","U","V","W","X","Y","Z","[","\\","]","^","_",
      "a","b","c","d","e","f","g","h","i","j","k","l","m","n","o",
      "p","q","r","s","t","u","v","w","x","y","z","{","|","}","~">>

\* the value of a byte of Lua source
ByteOf(c) ==
    CASE c = "\t" -> 9
      [] c = "\n" -> 10
      [] c = "\r" -> 13
      [] OTHER -> LET k == CHOOSE i \in 1..Len(Printable) : Printable[i] = c
                  IN IF k <= 64 THEN 31 + k ELSE 32 + k

\* the byte of a value; the values without a byte above do not occur in
\* the code the model packs
CharOf(v) ==
    CASE v = 9 -> "\t"
      [] v = 10 -> "\n"
      [] v = 13 -> "\r"
      [] OTHER -> IF v <= 95 THEN Printable[v - 31] ELSE Printable[v - 32]

\* Ord for Vec<u8>
RECURSIVE LexLess(_, _)
LexLess(x, y) ==
    IF y = <<>> THEN FALSE
    ELSE IF x = <<>> THEN TRUE
    ELSE IF Head(x) # Head(y) THEN ByteOf(Head(x)) < ByteOf(Head(y))
    ELSE LexLess(Tail(x), Tail(y))

\* f32 comparison
F32Less(x, y) == x[1] * y[2] < y[1] * x[2]

\* a sort by a total order: the element with i - 1 elements before it is
\* at position i
Sorted(S, Before(_, _)) ==
    [i \in 1..Cardinality(S) |->
        CHOOSE a \in S : Cardinality({b \in S : Before(b, a)}) = i - 1]

\* if analysis.block_type[o] == 2 { 1. } else { 0.1 }
Weight(an, o) == IF an.block_type[o + 1] = 2 THEN F32(1, 1) ELSE F32(1, 10)

\* the weights of the bytes at offsets that a literal emitted, added up:
\* as many times 1 as there are such bytes in blocks of type 2, and as many
\* times 0.1 as there are others
LiteralMass(an, offsets) ==
    LET literals == {k \in 1..Len(offsets) :
                        an.literal_index[offsets[k] + 1] = UsizeMax}
        heavy == {k \in literals : Weight(an, offsets[k]) = F32(1, 1)}
    IN F32Add(F32(Cardinality(heavy), 1),
              F32(Cardinality(literals \ heavy), 10))

\* offset..offset + id.len() for every offset of offsets
RECURSIVE OccurrenceBytes(_, _)
OccurrenceBytes(offsets, len) ==
    IF offsets = <<>> THEN <<>>
    ELSE [i \in 1..len |-> Head(offsets) + i - 1]
         \o OccurrenceBytes(Tail(offsets), len)

\* renameable_ids before the sort: (id, count / id.len(), offsets[0])
RenameableScores(candidates, an) ==
    {[id |-> id,
      count |-> F32DivInt(
                    LiteralMass(an, OccurrenceBytes(candidates.renameable[id],
                                                    Len(id))),
                    Len(id)),
      offset |-> candidates.renameable[id][1]] :
        id \in DOMAIN candidates.renameable}

\* descending count, then ascending first offset
RenameableBefore(a, b) ==
    \/ F32Less(b.count, a.count)
    \/ a.count = b.count /\ a.offset < b.offset

\* the candidate offsets that a literal emitted
LiteralChars(candidates, an) ==
    SelectSeq(candidates.candidate_chars,
              LAMBDA o : an.literal_index[o + 1] = UsizeMax)

\* candidate_ids before the sort: one entry for each byte value found at a
\* literal candidate offset, with the first such offset
CandidateScores(candidates, an) ==
    LET lits == LiteralChars(candidates, an)
        OfByte(v) == SelectSeq(lits, LAMBDA o : an.unpacked[o + 1] = v)
    IN {[id |-> <<CharOf(v)>>,
         count |-> LiteralMass(an, OfByte(v)),
         offset |-> OfByte(v)[1]] :
           v \in {an.unpacked[lits[k] + 1] : k \in 1..Len(lits)}}

\* (every byte in one class)
white_space_efficiency_flat(c) == 2

white_space_efficiency(c) ==
    IF c \in {"a","b","c","d","e","f","A","B","C","D","E","F"} THEN 0
    ELSE IF c \in {"p","x","P","X"} THEN 1
    ELSE 2

\* descending count, then descending white_space_efficiency, then ascending
\* first offset
CandidateBefore(a, b) ==
    \/ F32Less(b.count, a.count)
    \/ /\ a.count = b.count
       /\ \/ white_space_efficiency(a.id[1]) > white_space_efficiency(b.id[1])
          \/ /\ white_space_efficiency(a.id[1])
                  = white_space_efficiency(b.id[1])
             /\ a.offset < b.offset

\* b"_ghijklmnoqrstuvwyzpxabcdefGHIJKLMNOQRSTUVWYZPXABCDEF"
PoolChars ==
    <<"_","g","h","i","j","k","l","m","n","o","q","r","s","t","u","v","w",
      "y","z","p","x","a","b","c","d","e","f","G","H","I","J","K","L","M",
      "N","O","Q","R","S","T","U","V","W","Y","Z","P","X","A","B","C","D",
      "E","F">>

\* for &c in POOL: the single bytes that are not used yet
RECURSIVE PoolLoop(_, _, _)
PoolLoop(k, candidate_ids, used_ids) ==
    IF k > Len(PoolChars)
    THEN [candidate_ids |-> candidate_ids, used_ids |-> used_ids]
    ELSE IF <<PoolChars[k]>> \in used_ids
    THEN PoolLoop(k + 1, candidate_ids, used_ids)
    ELSE PoolLoop(k + 1, Append(candidate_ids, <<PoolChars[k]>>),
                  used_ids \cup {<<PoolChars[k]>>})

\* ((pos * 2 + 0.75).sqrt() - 0.5).floor(): the diagonal pos lies on
Diagonal(pos) ==
    CHOOSE d \in 0..pos :
        (d * (d + 1)) \div 2 <= pos /\ pos < ((d + 1) * (d + 2)) \div 2

\* while id_count > candidate_ids.len(): candidate_ids[y] followed by
\* candidate_ids[x]; an index past the end of candidate_ids panics
RECURSIVE PairLoop(_, _, _, _)
PairLoop(pos, candidate_ids, used_ids, id_count) ==
    IF id_count <= Len(candidate_ids)
    THEN [ok |-> TRUE, candidate_ids |-> candidate_ids]
    ELSE LET d == Diagonal(pos)
             x == pos - (d * (d + 1)) \div 2
             y == d - x
             id == candidate_ids[y + 1] \o candidate_ids[x + 1]
         IN IF x >= Len(candidate_ids) \/ y >= Len(candidate_ids)
            THEN [ok |-> FALSE, candidate_ids |-> candidate_ids]
            ELSE IF id \in used_ids
            THEN PairLoop(pos + 1, candidate_ids, used_ids, id_count)
            ELSE PairLoop(pos + 1, Append(candidate_ids, id),
                          used_ids \cup {id}, id_count)

\* if id_count > candidate_ids.len() { ... }
ExtendedCandidates(candidate_ids, fixed, id_count) ==
    IF id_count > Len(candidate_ids)
    THEN LET pool == PoolLoop(1, candidate_ids,
                        fixed \cup {candidate_ids[k] :
                                       k \in 1..Len(candidate_ids)})
         IN PairLoop(0, pool.candidate_ids, pool.used_ids, id_count)
    ELSE [ok |-> TRUE, candidate_ids |-> candidate_ids]

\* compute_rename_suggestions on the candidates of a tree; an index past
\* the end of the analysed data panics
SuggestionsOf(candidates, an) ==
    LET n == Len(an.literal_index)
        in_bounds ==
            /\ \A id \in DOMAIN candidates.renameable :
                 \A k \in 1..Len(candidates.renameable[id]) :
                    candidates.renameable[id][k] + Len(id) <= n
            /\ \A k \in 1..Len(candidates.candidate_chars) :
                    candidates.candidate_chars[k] < n
        renameable_ids == Sorted(RenameableScores(candidates, an),
                                 RenameableBefore)
        id_count == Len(renameable_ids)
        sorted == Sorted(CandidateScores(candidates, an), CandidateBefore)
        extended == ExtendedCandidates([k \in 1..Len(sorted) |-> sorted[k].id],
                                       candidates.fixed, id_count)
    IN IF ~in_bounds THEN [ok |-> FALSE, value |-> EmptyMap]
       ELSE IF ~extended.ok THEN [ok |-> FALSE, value |-> EmptyMap]
       ELSE [ok |-> TRUE,
             value |-> [id \in {renameable_ids[k].id : k \in 1..id_count} |->
                          extended.candidate_ids[
                             CHOOSE k \in 1..id_count :
                                renameable_ids[k].id = id]]]

compute_rename_suggestions(tree, an) ==
    SuggestionsOf(get_rename_candidates(tree), an)

\* merge_renames: reverse is collected in the order of the keys of a, so of
\* two entries with one target the one with the greater source stays
merge_renames(a, b) ==
    LET reverse(dst) ==
            CHOOSE src \in DOMAIN a :
                /\ a[src] = dst
                /\ \A other \in DOMAIN a :
                      a[other] = dst => other = src \/ LexLess(other, src)
        key(src) == IF \E s \in DOMAIN a : a[s] = src THEN reverse(src)
                    ELSE src
        \* two entries of b with one key: extend inserts in the order of
        \* the keys of b, the greater source of b stays
        last(k) == CHOOSE src \in DOMAIN b :
                      /\ key(src) = k
                      /\ \A other \in DOMAIN b :
                            key(other) = k =>
                                other = src \/ LexLess(other, src)
    IN [k \in DOMAIN a \cup {key(src) : src \in DOMAIN b} |->
          IF \E src \in DOMAIN b : key(src) = k THEN b[last(k)] ELSE a[k]]

----------------------------------------------------------------------------
(* The inputs and expected outputs of the tests of lua.rs.                 *)

\* number_spaces: transform('ad=0x3FF9 poke(ad,r)')
Test01 ==
    [input |->
        <<"a","d","=","0","x","3","F","F","9"," ","p","o","k","e","(","a",
          "d",",","r",")">>,
     output |->
        <<"a","d","=","0","x","3","F","F","9"," ","p","o","k","e","(","a",
          "d",",","r",")">>]

\* number_spaces: transform('ad=0x3FF9 x=1')
Test02 ==
    [input |->
        <<"a","d","=","0","x","3","F","F","9"," ","x","=","1">>,
     output |->
        <<"a","d","=","0","x","3","F","F","9","x","=","1">>]

\* number_spaces: transform('ad=0x3FF9 f=1')
Test03 ==
    [input |->
        <<"a","d","=","0","x","3","F","F","9"," ","f","=","1">>,
     output |->
        <<"a","d","=","0","x","3","F","F","9"," ","f","=","1">>]

\* number_spaces: transform('ad=0x3FF9.2 p=1')
Test04 ==
    [input |->
        <<"a","d","=","0","x","3","F","F","9",".","2"," ","p","=","1">>,
     output |->
        <<"a","d","=","0","x","3","F","F","9",".","2"," ","p","=","1">>]

\* number_spaces: transform('ad=0x3FF9.2p4 p=1')
Test05 ==
    [input |->
        <<"a","d","=","0","x","3","F","F","9",".","2","p","4"," ","p","=",
          "1">>,
     output |->
        <<"a","d","=","0","x","3","F","F","9",".","2","p","4"," ","p","=",
          "1">>]

\* number_spaces: transform('ad=0x3FF9.2p-4 p=1')
Test06 ==
    [input |->
        <<"a","d","=","0","x","3","F","F","9",".","2","p","-","4"," ","p",
          "=","1">>,
     output |->
        <<"a","d","=","0","x","3","F","F","9",".","2","p","-","4"," ","p",
          "=","1">>]

\* number_spaces: transform('a=1 p=2')
Test07 ==
    [input |->
        <<"a","=","1"," ","p","=","2">>,
     output |->
        <<"a","=","1","p","=","2">>]

\* number_spaces: transform('a=1 e=2')
Test08 ==
    [input |->
        <<"a","=","1"," ","e","=","2">>,
     output |->
        <<"a","=","1"," ","e","=","2">>]

\* number_spaces: transform('a=0 x=2')
Test09 ==
    [input |->
        <<"a","=","0"," ","x","=","2">>,
     output |->
        <<"a","=","0"," ","x","=","2">>]

\* number_spaces: transform('a=.0 x=2')
Test10 ==
    [input |->
        <<"a","=",".","0"," ","x","=","2">>,
     output |->
        <<"a","=",".","0"," ","x","=","2">>]

\* strings_spaces: transform('a=" a=2 b=3 \\" \\ c=4 d=5 " b=2')
Test11 ==
    [input |->
        <<"a","=","\""," ","a","=","2"," ","b","=","3"," ","\\","\""," ",
          "\\"," ","c","=","4"," ","d","=","5"," ","\""," ","b",
          "=","2">>,
     output |->
        <<"a","=","\""," ","a","=","2"," ","b","=","3"," ","\\","\""," ",
          "\\"," ","c","=","4"," ","d","=","5"," ","\"","b","=",
          "2">>]

\* strings_spaces: transform("a=' a=2 b=3 \\' \\ c=4 d=5 ' b=2")
Test12 ==
    [input |->
        <<"a","=","'"," ","a","=","2"," ","b","=","3"," ","\\","'"," ",
          "\\"," ","c","=","4"," ","d","=","5"," ","'"," ","b",
          "=","2">>,
     output |->
        <<"a","=","'"," ","a","=","2"," ","b","=","3"," ","\\","'"," ",
          "\\"," ","c","=","4"," ","d","=","5"," ","'","b","=","2">>]

\* strings_spaces: transform('a=[==[ this is ]=] fun ]==] b = 2')
Test13 ==
    [input |->
        <<"a","=","[","=","=","["," ","t","h","i","s"," ","i","s"," ","]",
          "=","]"," ","f","u","n"," ","]","=","=","]"," ","b"," ",
          "="," ","2">>,
     output |->
        <<"a","=","[","=","=","["," ","t","h","i","s"," ","i","s"," ","]",
          "=","]"," ","f","u","n"," ","]","=","=","]","b","=","2">>]

\* multiline_comments: transform('a = --[=[ blah \n blub ]=] 4')
Test14 ==
    [input |->
        <<"a"," ","="," ","-","-","[","=","["," ","b","l","a","h"," ",
          "\n"," ","b","l","u","b"," ","]","=","]"," ","4">>,
     output |->
        <<"a","=","4">>]

\* rename_inside_load: transform('--rename a->b\nA=load"a=2"')
Test15 ==
    [input |->
        <<"-","-","r","e","n","a","m","e"," ","a","-",">","b","\n","A",
          "=","l","o","a","d","\"","a","=","2","\"">>,
     output |->
        <<"A","=","l","o","a","d","\"","b","=","2","\"">>]

TestCases ==
    {Test01, Test02, Test03, Test04, Test05, Test06, Test07, Test08,
     Test09, Test10, Test11, Test12, Test13, Test14, Test15}

TestInputs == {t.input : t \in TestCases}

----------------------------------------------------------------------------
(* The pack pipeline on one input (CmdPack::run, lua part).                *)

\* the lexemes inputs are built from: program structure, strings, operators
Chunks ==
    << <<"a">>, <<"1">>, <<" ">>, <<"-">>, <<"=">>, <<"\"">>, <<"\\">>,
       kwLoad, kwFunction, kwEnd >>

\* lexemes around numbers, for the separator rules
SepChunks ==
    << <<"a">>, <<"e">>, <<"x">>, <<"X">>, <<"p">>, <<"0">>, <<"1">>, <<".">>,
       <<" ">>, <<"\"">>, kwLoad >>

\* lexemes of nested code strings
NestChunks ==
    << kwLoad, <<"\"">>, <<"'">>, <<"\\">>, <<"-">>, <<" ">> >>

\* lexemes of rename directives
RenameDirective ==
    <<"-","-","r","e","n","a","m","e"," ","a","-",">","b","\n">>

RenameChunks ==
    << RenameDirective, <<"a">>, <<"b">>, <<" ">>, <<"=">>, <<"\"">>,
       kwLoad, kwFunction, kwEnd >>

\* lexemes of assignments, function declarations and entry points
CandChunks ==
    << <<"a">>, <<"=">>, <<"a","=">>, <<"T","I","C","=">>, <<"\"">>,
       <<"-","-","\n">>, kwFunction \o <<" ">>, kwLoad \o <<"\"">> >>

\* lexemes of line comments and of long-bracket comments of levels 0 and 1
CommentChunks ==
    << <<"a">>, <<"4">>, <<" ">>, <<"-","-">>, <<"\n">>,
       <<"-","-","[","=","[","x","\n">>, <<"]","=","]">>,
       <<"-","-","[","[">>, <<"]","]">>, kwLoad \o <<"\"">>, <<"\"">> >>

\* lexemes of long brackets of levels 0, 1 and 2
BracketChunks ==
    << <<"[","[">>, <<"[","=","[">>, <<"[","=","=","[">>,
       <<"]","]">>, <<"]","=","]">>, <<"]","=","=","]">>,
       <<"a">>, <<".">>, <<" ">>, <<"=">>, <<"]">>, <<"[">> >>

\* multiline_strings: the input of the test
MultilineStrings ==
    <<"[","=","=","[","f","o","o","[","=","[","b","a","r","]","=","]",
      "b","a","z","]","=","=","]",".",".",".">>

\* lexemes of quoted strings and their escapes
QuoteChunks ==
    << <<"\"">>, <<"'">>, <<"\\">>, <<"\\","\\">>, <<"\\","\"">>,
       <<"\\","'">>, <<"a">>, <<" ">>, <<"\n">> >>

\* strings: the input of the test
QuotedStrings ==
    <<"\"","t","e","s","t","\\","\"","a","\\","\"","\""," "," ",
      "'","f","o","o","\\","'","'">>

\* lexemes of transform-to-load directives: the directive, a function the
\* rewrite accepts, one it refuses, a statement, an open function and end
TransformDirective ==
    <<"-","-","t","r","a","n","s","f","o","r","m"," ","t","o"," ",
      "l","o","a","d","\n">>

TransformChunks ==
    << TransformDirective,
       kwFunction \o <<" ","f","(",")","a"," ">> \o kwEnd \o <<" ">>,
       kwFunction \o <<" ","g","(","a",")">> \o kwEnd \o <<" ">>,
       <<"a","=","1"," ">>,
       kwFunction \o <<" ","h","(",")">>,
       kwEnd \o <<" ">> >>

\* lexemes of code strings whose tokens are escaped: a code string, a
\* code string inside it with an assignment, its end, and a string with
\* an escaped quote in front of a letter
OffsetChunks ==
    << kwLoad \o <<"\"">>,
       kwLoad \o <<"\\","\"","a","=","b">>,
       <<"\\","\"","\"">>,
       <<"'","\\","\"","c","'">>,
       <<"\"">>, <<"a","=">>, <<"1">>, <<" ">> >>

\* the sequences of a sequence, one after the other
RECURSIVE Concat(_)
Concat(seqs) == IF seqs = <<>> THEN <<>> ELSE Head(seqs) \o Concat(Tail(seqs))

\* the concatenations of at most n lexemes of chunks
RECURSIVE InputsOf(_, _)
InputsOf(chunks, n) ==
    IF n = 0 THEN {<<>>}
    ELSE LET shorter == InputsOf(chunks, n - 1)
         IN shorter \cup {s \o chunks[k] : s \in shorter, k \in 1..Len(chunks)}

\* no operation has been run on its own
TicIdle ==
    /\ cartridge = <<>>
    /\ file = <<>>
    /\ loaded = <<>>

UnitIdle ==
    /\ code_lengths = <<>>
    /\ symbol = 0
    /\ TicIdle

\* the state of CmdPack::run before the rename search and compress_code
PackIdle ==
    /\ rename = EmptyMap
    /\ best_rename = EmptyMap
    /\ best_size = 0
    /\ best_code = <<>>
    /\ seen_renames = {}
    /\ analysed = <<>>
    /\ compressed = <<>>
    /\ chunk = <<>>

InitWith(inputs) ==
    /\ code \in inputs \cup TestInputs
    /\ pc = "start"
    /\ tt = <<>>
    /\ renames = EmptyMap
    /\ out = <<>>
    /\ stream = <<>>
    /\ input = <<>>
    /\ apc = "idle"
    /\ bitstream = BitstreamNew
    /\ data = AnalysisData(<<>>, <<>>, <<>>)
    /\ blocks = <<>>
    /\ is_final = FALSE
    /\ block = <<>>
    /\ huff_lit_length = <<>>
    /\ huff_distance = <<>>
    /\ lz_items = <<>>
    /\ PackIdle
    /\ UnitIdle

Init == InitWith(InputsOf(Chunks, MaxChunks))
InitSep == InitWith(InputsOf(SepChunks, MaxChunks))
InitNest == InitWith(InputsOf(NestChunks, MaxNestChunks))
InitRename == InitWith(InputsOf(RenameChunks, MaxChunks))
InitCand == InitWith(InputsOf(CandChunks, MaxChunks))
InitComment == InitWith(InputsOf(CommentChunks, MaxChunks))
InitTransform == InitWith(InputsOf(TransformChunks, MaxChunks))
InitOffsets == InitWith(InputsOf(OffsetChunks, MaxChunks))
InitQuote ==
    InitWith(InputsOf(QuoteChunks, MaxChunks) \cup {QuotedStrings})
InitBracket ==
    InitWith(InputsOf(BracketChunks, MaxChunks) \cup {MultilineStrings})

\* let mut program = lua::Program::parse(&code)
Parse ==
    /\ pc = "start"
    /\ \E program \in {ProgramParse(code)} :
          /\ tt' = program.tt
          /\ renames' = program.renames
    /\ pc' = "parsed"
    /\ UNCHANGED unitVars
    /\ UNCHANGED <<code, out>>
    /\ UNCHANGED deflateVars
    /\ UNCHANGED packVars

\* code = program.serialize(b' ')
Serialize ==
    /\ pc = "parsed"
    /\ \E r \in {serialize(tt, " ")} :
          /\ tt' = r.tt
          /\ out' = r.code
    /\ pc' = "serialized"
    /\ UNCHANGED unitVars
    /\ UNCHANGED <<code, renames>>
    /\ UNCHANGED deflateVars
    /\ UNCHANGED packVars

Next == Parse \/ Serialize

Spec == Init /\ [][Next]_vars
SpecSep == InitSep /\ [][Next]_vars
SpecNest == InitNest /\ [][Next]_vars
SpecRename == InitRename /\ [][Next]_vars
SpecCand == InitCand /\ [][Next]_vars
SpecComment == InitComment /\ [][Next]_vars
SpecBracket == InitBracket /\ [][Next]_vars
SpecQuote == InitQuote /\ [][Next]_vars
SpecTransform == InitTransform /\ [][Next]_vars
SpecOffsets == InitOffsets /\ [][Next]_vars

\* every test of lua.rs passes on the model
TestsPass ==
    \A t \in TestCases : (pc = "serialized" /\ code = t.input) => out = t.output

----------------------------------------------------------------------------
(* The compressed streams analyze is run on.  The compressor is not part   *)
(* of the program; what follows writes raw DEFLATE as RFC 1951 defines it, *)
(* for a chosen split of the data into literals, matches and blocks.       *)

\* RFC 1951, 3.2.5: (extra bits, first length) of the symbols 257..285
RfcLengths ==
    << <<0, 3>>, <<0, 4>>, <<0, 5>>, <<0, 6>>, <<0, 7>>, <<0, 8>>, <<0, 9>>,
       <<0, 10>>, <<1, 11>>, <<1, 13>>, <<1, 15>>, <<1, 17>>, <<2, 19>>,
       <<2, 23>>, <<2, 27>>, <<2, 31>>, <<3, 35>>, <<3, 43>>, <<3, 51>>,
       <<3, 59>>, <<4, 67>>, <<4, 83>>, <<4, 99>>, <<4, 115>>, <<5, 131>>,
       <<5, 163>>, <<5, 195>>, <<5, 227>>, <<0, 258>> >>

\* RFC 1951, 3.2.5: (extra bits, first distance) of the symbols 0..29
RfcDistances ==
    [k \in 1..30 |->
        IF k <= 4 THEN <<0, k>>
        ELSE <<((k - 1) \div 2) - 1,
               1 + (2 + ((k - 1) % 2)) * 2^(((k - 1) \div 2) - 1)>>]

\* the last entry of the table whose range starts at or below v
SymbolIndex(table, v) ==
    SetMax({k \in 1..Len(table) : table[k][2] <= v})

\* RFC 1951, 3.2.2: the code of a symbol, given the bit length of every
\* symbol (lengths[sym + 1], 0 for a symbol that is not used)
BlCount(lengths, bits) ==
    IF bits = 0 THEN 0
    ELSE Cardinality({k \in 1..Len(lengths) : lengths[k] = bits})

RECURSIVE RfcNextCode(_, _)
RfcNextCode(lengths, bits) ==
    IF bits = 0 THEN 0
    ELSE (RfcNextCode(lengths, bits - 1) + BlCount(lengths, bits - 1)) * 2

RfcCode(lengths, sym) ==
    RfcNextCode(lengths, lengths[sym + 1])
        + Cardinality({k \in 1..sym : lengths[k] = lengths[sym + 1]})

\* a Huffman code goes into the stream most significant bit first
HuffmanBits(lengths, sym) ==
    LET n == lengths[sym + 1]
        c == RfcCode(lengths, sym)
    IN [i \in 1..n |-> (c \div 2^(n - i)) % 2]

\* every other field goes least significant bit first
FieldBits(v, n) == [i \in 1..n |-> (v \div 2^(i - 1)) % 2]

\* RFC 1951, 3.2.6: the code lengths of a block with fixed codes
FixedLitLengths ==
    [k \in 1..288 |->
        IF k <= 144 THEN 8 ELSE IF k <= 256 THEN 9 ELSE IF k <= 280 THEN 7 ELSE 8]

FixedDistLengths == [k \in 1..32 |-> 5]

\* the code lengths the dynamic blocks of the model use: the literals "a"
\* and "b", end of block and the lengths 3..6, 11..12, 131..162 and 258;
\* the distances 1, 2 and 5..6
DynamicLitLengths ==
    [k \in 1..286 |->
        IF k - 1 \in {97, 98, 256, 257, 258, 259} THEN 3
        ELSE IF k - 1 \in {260, 265, 281, 285} THEN 4
        ELSE 0]

DynamicDistLengths == <<1, 2, 0, 0, 2>>

\* how many entries from p on equal the entry at p
RunOf(seq, p) ==
    LET differ == {q \in p..Len(seq) : seq[q] # seq[p]}
    IN IF differ = {} THEN Len(seq) - p + 1
       ELSE (CHOOSE q \in differ : \A r \in differ : q <= r) - p

Min(a, b) == IF a < b THEN a ELSE b

\* RFC 1951, 3.2.7: the code lengths as symbols of the code length
\* alphabet, <<symbol, extra bits, extra value>> each
RECURSIVE RunLengthCoded(_, _)
RunLengthCoded(seq, p) ==
    IF p > Len(seq) THEN <<>>
    ELSE LET v == seq[p]
             run == RunOf(seq, p)
         IN IF v = 0 /\ run >= 11
            THEN <<<<18, 7, Min(run, 138) - 11>>>>
                 \o RunLengthCoded(seq, p + Min(run, 138))
            ELSE IF v = 0 /\ run >= 3
            THEN <<<<17, 3, run - 3>>>> \o RunLengthCoded(seq, p + run)
            ELSE IF v # 0 /\ p > 1 /\ seq[p - 1] = v /\ run >= 3
            THEN <<<<16, 2, Min(run, 6) - 3>>>>
                 \o RunLengthCoded(seq, p + Min(run, 6))
            ELSE <<<<v, 0, 0>>>> \o RunLengthCoded(seq, p + 1)

DynamicCoded == RunLengthCoded(DynamicLitLengths \o DynamicDistLengths, 1)

\* the code of the code length alphabet: three bits for each of the eight
\* symbols 0..4 and 16..18
CodeLengthLengths ==
    [k \in 1..19 |-> IF k - 1 \in {0, 1, 2, 3, 4, 16, 17, 18} THEN 3 ELSE 0]

\* RFC 1951, 3.2.7: the header of a dynamic block after BFINAL and BTYPE
DynamicHeaderBits ==
    LET hclen == SetMax({k \in 1..19 :
                            CodeLengthLengths[HeaderOrder[k] + 1] > 0})
    IN FieldBits(Len(DynamicLitLengths) - 257, 5)
       \o FieldBits(Len(DynamicDistLengths) - 1, 5)
       \o FieldBits(hclen - 4, 4)
       \o Flatten([k \in 1..hclen |->
                       FieldBits(CodeLengthLengths[HeaderOrder[k] + 1], 3)])
       \o Flatten([k \in 1..Len(DynamicCoded) |->
                       HuffmanBits(CodeLengthLengths, DynamicCoded[k][1])
                       \o FieldBits(DynamicCoded[k][3], DynamicCoded[k][2])])

LitLengthsOf(type) == IF type = 1 THEN FixedLitLengths ELSE DynamicLitLengths
DistLengthsOf(type) == IF type = 1 THEN FixedDistLengths ELSE DynamicDistLengths

\* what the compressor chose to emit
Literal(byte) == [kind |-> "Literal", byte |-> byte]
Match(length, distance) ==
    [kind |-> "Match", length |-> length, distance |-> distance]

ItemBits(type, item) ==
    IF item.kind = "Literal" THEN HuffmanBits(LitLengthsOf(type), item.byte)
    ELSE LET l == SymbolIndex(RfcLengths, item.length)
             o == SymbolIndex(RfcDistances, item.distance)
         IN HuffmanBits(LitLengthsOf(type), 256 + l)
            \o FieldBits(item.length - RfcLengths[l][2], RfcLengths[l][1])
            \o HuffmanBits(DistLengthsOf(type), o - 1)
            \o FieldBits(item.distance - RfcDistances[o][2], RfcDistances[o][1])

\* a block: BFINAL, BTYPE, the header, the items, end of block
BlockBits(b, final) ==
    <<IF final THEN 1 ELSE 0>> \o FieldBits(b.type, 2)
    \o (IF b.type = 2 THEN DynamicHeaderBits ELSE <<>>)
    \o Flatten([k \in 1..Len(b.items) |-> ItemBits(b.type, b.items[k])])
    \o HuffmanBits(LitLengthsOf(b.type), 256)

\* bits into bytes, least significant bit first, the last byte zero padded
Packed(bits) ==
    [k \in 1..((Len(bits) + 7) \div 8) |->
        LET Bit(i) == IF 8 * (k - 1) + i <= Len(bits)
                      THEN bits[8 * (k - 1) + i] ELSE 0
        IN Bit(1) + 2 * Bit(2) + 4 * Bit(3) + 8 * Bit(4) + 16 * Bit(5)
           + 32 * Bit(6) + 64 * Bit(7) + 128 * Bit(8)]

\* the raw DEFLATE stream of a sequence of blocks
Deflated(bs) ==
    Packed(Flatten([k \in 1..Len(bs) |-> BlockBits(bs[k], k = Len(bs))]))

\* the data a sequence of items stands for (RFC 1951, 3.2.3)
\* n bytes copied from distance back: a copy that overlaps its own output
\* repeats the last distance bytes
CopyFrom(s, distance, n) ==
    [k \in 1..(Len(s) + n) |->
        IF k <= Len(s) THEN s[k]
        ELSE s[Len(s) - distance + 1 + ((k - Len(s) - 1) % distance)]]

RECURSIVE Inflated(_, _)
Inflated(items, s) ==
    IF items = <<>> THEN s
    ELSE Inflated(Tail(items),
            IF Head(items).kind = "Literal" THEN Append(s, Head(items).byte)
            ELSE CopyFrom(s, Head(items).distance, Head(items).length))

ItemsOf(bs) == Flatten([k \in 1..Len(bs) |-> bs[k].items])

\* the literals and the matches the streams are made of: a match that
\* overlaps its own output, one that does not, one with extra length bits,
\* one with extra distance bits, and the longest one
Literals == {Literal(97), Literal(98)}

Matches == {Match(3, 1), Match(4, 2), Match(11, 1), Match(3, 5), Match(258, 1)}

\* the sequences of at most n items in which every match stays inside the
\* data before it
RECURSIVE ItemSeqs(_)
ItemSeqs(n) ==
    IF n = 0 THEN {<<>>}
    ELSE LET shorter == ItemSeqs(n - 1)
         IN shorter \cup
            {Append(s, it) : s \in shorter,
                             it \in Literals} \cup
            UNION {{Append(s, m) : m \in {x \in Matches :
                                     x.distance <= Len(Inflated(s, <<>>))}} :
                   s \in shorter}

\* every such sequence as one block or as two, each block with fixed or
\* with dynamic codes
Streams ==
    LET seqs == ItemSeqs(MaxItems)
    IN {<<[type |-> t, items |-> s]>> : s \in seqs, t \in {1, 2}}
       \cup
       UNION {{<<[type |-> t1, items |-> SubSeq(s, 1, k)],
                 [type |-> t2, items |-> SubSeq(s, k + 1, Len(s))]>> :
                   k \in 0..Len(s), t1 \in {1, 2}, t2 \in {1, 2}} :
              s \in seqs}

\* analyze(&data) on the stream the compressor wrote
InitDeflate ==
    /\ stream \in Streams
    /\ input = Deflated(stream)
    /\ apc = "header"
    /\ bitstream = BitstreamNew
    /\ data = AnalysisData(<<>>, <<>>, <<>>)
    /\ blocks = <<>>
    /\ is_final = FALSE
    /\ block = <<>>
    /\ huff_lit_length = <<>>
    /\ huff_distance = <<>>
    /\ lz_items = <<>>
    /\ code = <<>>
    /\ pc = "idle"
    /\ tt = <<>>
    /\ renames = EmptyMap
    /\ out = <<>>
    /\ PackIdle
    /\ UnitIdle

----------------------------------------------------------------------------
(* analyze, one step at a time: a block header, then one item of the block *)
(* a step until its end-of-block item, and the redistribution after the    *)
(* final block.                                                            *)

\* while !is_final: the header of the next block
ReadBlockHeader ==
    /\ apc = "header"
    /\ \E h \in {BlockHeader(input, bitstream)} :
          IF h.ok
          THEN /\ bitstream' = h.bitstream
               /\ is_final' = h.value.is_final
               /\ block' = [header_item |-> h.value.header_item,
                            block_type |-> h.value.block_type]
               /\ huff_lit_length' = h.value.huff_lit_length
               /\ huff_distance' = h.value.huff_distance
               /\ lz_items' = <<>>
               /\ apc' = "decode"
          ELSE /\ apc' = "panicked"
               /\ UNCHANGED <<bitstream, is_final, block, huff_lit_length,
                              huff_distance, lz_items>>
    /\ UNCHANGED <<input, data, blocks, stream>>
    /\ UNCHANGED unitVars
    /\ UNCHANGED luaVars
    /\ UNCHANGED packVars

\* one turn of the loop of decode_block; the end-of-block item returns to
\* analyze, which pushes the block
DecodeItem ==
    /\ apc = "decode"
    /\ \E r \in {DecodeStep(input, bitstream, data, huff_lit_length,
                            huff_distance)} :
          IF ~r.ok
          THEN /\ apc' = "panicked"
               /\ UNCHANGED <<bitstream, data, blocks, lz_items>>
          ELSE /\ bitstream' = r.bitstream
               /\ data' = r.data
               /\ IF r.item.kind = "EndOfBlock"
                  THEN /\ blocks' = Append(blocks,
                              [header_item |-> block.header_item,
                               block_type |-> block.block_type,
                               lz |-> Append(lz_items, r.item)])
                       /\ lz_items' = <<>>
                       /\ apc' = IF is_final THEN "redistribute" ELSE "header"
                  ELSE /\ lz_items' = Append(lz_items, r.item)
                       /\ UNCHANGED <<blocks, apc>>
    /\ UNCHANGED <<input, is_final, block, huff_lit_length, huff_distance,
                   stream>>
    /\ UNCHANGED unitVars
    /\ UNCHANGED luaVars
    /\ UNCHANGED packVars

\* the redistribution pass; analyze returns
Redistribute ==
    /\ apc = "redistribute"
    /\ data' = Redistributed(data)
    /\ apc' = "returned"
    /\ UNCHANGED <<input, bitstream, blocks, is_final, block, huff_lit_length,
                   huff_distance, lz_items, stream>>
    /\ UNCHANGED unitVars
    /\ UNCHANGED luaVars
    /\ UNCHANGED packVars

NextAnalyze == ReadBlockHeader \/ DecodeItem \/ Redistribute

SpecDeflate == InitDeflate /\ [][NextAnalyze]_vars

----------------------------------------------------------------------------
(* analyze on streams no compressor writes (CmdAnalyze reads the stream of *)
(* a cartridge it is given).                                               *)

\* the three header bits of a final block of a type
FinalHeader(type) == <<1>> \o FieldBits(type, 2)

\* HLIT = 0, HDIST = 0, HCLEN = 0 and the lengths of the codes of 16, 17, 18
\* and 0 in the code length alphabet
ShortDynamicHeader(l16, l17, l18, l0) ==
    FinalHeader(2) \o FieldBits(0, 5) \o FieldBits(0, 5) \o FieldBits(0, 4)
    \o FieldBits(l16, 3) \o FieldBits(l17, 3) \o FieldBits(l18, 3)
    \o FieldBits(l0, 3)

\* a block of type 0 and one of type 3
UnknownBlockTypes == {Packed(FinalHeader(0)), Packed(FinalHeader(3))}

\* the only code of the code length alphabet is 0, and the stream goes on
\* with the bit 1
NoSuchCode == Packed(ShortDynamicHeader(0, 0, 0, 1) \o <<1>>)

\* the first code length is a repeat of the previous one
RepeatAtStart == Packed(ShortDynamicHeader(1, 0, 0, 1) \o <<1, 0, 0>>)

\* twice 138 zero lengths where 258 lengths are expected
LengthsOverrun ==
    Packed(ShortDynamicHeader(0, 0, 1, 1)
           \o <<1>> \o FieldBits(127, 7) \o <<1>> \o FieldBits(127, 7))

\* the length symbols 286 and 287 and the distance symbols 30 and 31 of the
\* fixed codes, which stand for nothing
SymbolsOutsideTables ==
    {Packed(FinalHeader(1) \o HuffmanBits(FixedLitLengths, sym)) :
        sym \in {286, 287}}
    \cup {Packed(FinalHeader(1) \o HuffmanBits(FixedLitLengths, 97)
                 \o HuffmanBits(FixedLitLengths, 257)
                 \o HuffmanBits(FixedDistLengths, sym)) : sym \in {30, 31}}

\* the streams of at most two items the compressor writes, in one block
ShortStreams ==
    {<<[type |-> t, items |-> s]>> : s \in ItemSeqs(2), t \in {1, 2}}

\* a stream cut short: the first n bytes of a stream, n less than its length
CutShort ==
    UNION {{SubSeq(Deflated(bs), 1, n) : n \in 0..(Len(Deflated(bs)) - 1)} :
           bs \in ShortStreams}

MalformedStreams ==
    UnknownBlockTypes \cup {NoSuchCode, RepeatAtStart, LengthsOverrun}
    \cup SymbolsOutsideTables \cup CutShort

\* analyze(&chunk.data[2..]) on a malformed stream, and on the well-formed
\* streams the malformed ones were cut from
InitMalformed ==
    /\ \/ input \in MalformedStreams /\ stream = <<>>
       \/ stream \in ShortStreams /\ input = Deflated(stream)
    /\ apc = "header"
    /\ bitstream = BitstreamNew
    /\ data = AnalysisData(<<>>, <<>>, <<>>)
    /\ blocks = <<>>
    /\ is_final = FALSE
    /\ block = <<>>
    /\ huff_lit_length = <<>>
    /\ huff_distance = <<>>
    /\ lz_items = <<>>
    /\ code = <<>>
    /\ pc = "idle"
    /\ tt = <<>>
    /\ renames = EmptyMap
    /\ out = <<>>
    /\ PackIdle
    /\ UnitIdle

SpecMalformed == InitMalformed /\ [][NextAnalyze]_vars

----------------------------------------------------------------------------
(* Huffman::read on its own: a table built from code lengths, one read.    *)

\* 2^top times the Kraft sum of the lengths
RECURSIVE KraftSum(_, _, _)
KraftSum(ls, k, top) ==
    IF k > Len(ls) THEN 0
    ELSE (IF ls[k] > 0 THEN 2^(top - ls[k]) ELSE 0) + KraftSum(ls, k + 1, top)

\* the code lengths of MaxSymbols symbols, MaxBits at most, that a prefix
\* code can have; 0 for a symbol that is not used
PrefixLengths ==
    {ls \in [1..MaxSymbols -> 0..MaxBits] :
        /\ \E k \in 1..MaxSymbols : ls[k] > 0
        /\ KraftSum(ls, 1, MaxBits) <= 2^MaxBits}

InitHuffman ==
    /\ \/ /\ code_lengths \in PrefixLengths
          /\ input \in {<<v>> : v \in 0..(2^MaxBits - 1)}
       \/ /\ code_lengths \in {[k \in 1..288 |->
                              IF k <= 144 THEN 8 ELSE IF k <= 256 THEN 9
                              ELSE IF k <= 280 THEN 7 ELSE 8],
                          [k \in 1..32 |-> 5]}
          /\ input \in {<<v, w>> : v \in 0..255, w \in 0..1}
    /\ symbol = 0
    /\ TicIdle
    /\ stream = <<>>
    /\ apc = "build"
    /\ bitstream = BitstreamNew
    /\ data = AnalysisData(<<>>, <<>>, <<>>)
    /\ blocks = <<>>
    /\ is_final = FALSE
    /\ block = <<>>
    /\ huff_lit_length = <<>>
    /\ huff_distance = <<>>
    /\ lz_items = <<>>
    /\ code = <<>>
    /\ pc = "idle"
    /\ tt = <<>>
    /\ renames = EmptyMap
    /\ out = <<>>
    /\ PackIdle

\* HuffmanBuilder::new, add_code or add_codes for the symbols, build
BuildHuffman ==
    /\ apc = "build"
    /\ huff_lit_length' =
          IF Len(code_lengths) = 288 THEN StaticLitLength
          ELSE IF Len(code_lengths) = 32 THEN StaticDistance
          ELSE build(AddCodesOf(code_lengths, 0, Len(code_lengths)))
    /\ apc' = "read"
    /\ UNCHANGED <<stream, input, bitstream, data, blocks, is_final, block,
                   huff_distance, lz_items>>
    /\ UNCHANGED luaVars
    /\ UNCHANGED packVars
    /\ UNCHANGED unitVars

\* Huffman::read
ReadSymbol ==
    /\ apc = "read"
    /\ \E r \in {HuffmanRead(huff_lit_length, input, bitstream)} :
          IF r.ok
          THEN /\ symbol' = r.value
               /\ bitstream' = r.bitstream
               /\ apc' = "returned"
          ELSE /\ apc' = "panicked"
               /\ UNCHANGED <<symbol, bitstream>>
    /\ UNCHANGED <<stream, input, data, blocks, is_final, block,
                   huff_lit_length, huff_distance, lz_items, code_lengths>>
    /\ UNCHANGED ticVars
    /\ UNCHANGED luaVars
    /\ UNCHANGED packVars

NextHuffman == BuildHuffman \/ ReadSymbol

SpecHuffman == InitHuffman /\ [][NextHuffman]_vars

----------------------------------------------------------------------------
(* tic_file.rs: save and load of the cartridge container.                  *)

\* the greatest number of chunks of a cartridge
MaxCartChunks == 3

\* struct Chunk
Chunk(type_, bank, payload) == [type_ |-> type_, bank |-> bank, data |-> payload]

\* put_u16_le(n as u16)
PutU16Le(n) == <<(n % 65536) % 256, (n % 65536) \div 256>>

\* the body of the loop of save; type_ | (bank << 5) is the sum for types
\* below 32 and banks below 8, whose bits do not meet
SaveChunk(c, last) ==
    <<c.type_ + 32 * c.bank>>
    \o (IF ~last \/ c.data # <<>> \/ c.type_ # 17
        THEN PutU16Le(Len(c.data)) ELSE <<>>)
    \o (IF ~last \/ c.data # <<>> THEN <<0>> \o c.data ELSE <<>>)

\* save: the bytes written to the file
save(list) ==
    Concat([i \in 1..Len(list) |-> SaveChunk(list[i], i = Len(list))])

\* the while loop of load
RECURSIVE ReadChunks(_, _)
ReadChunks(bytes, read) ==
    IF Len(bytes) > 1
    THEN LET v == bytes[1]
             hasLength == Len(bytes) - 1 >= 2
             length == IF hasLength THEN bytes[2] + 256 * bytes[3] ELSE 0
             at == IF hasLength THEN 3 ELSE 1
             fits == Len(bytes) - at >= 1 + length
         IN ReadChunks(
                IF fits THEN SubSeq(bytes, at + 2 + length, Len(bytes))
                ELSE <<>>,
                Append(read,
                       Chunk(v % 32, v \div 32,
                             IF fits
                             THEN SubSeq(bytes, at + 2, at + 1 + length)
                             ELSE <<>>)))
    ELSE read

\* load: the chunks read from the bytes of the file
load(bytes) == ReadChunks(bytes, <<>>)

\* the chunk lists of at most n chunks
RECURSIVE ChunkLists(_, _)
ChunkLists(S, n) ==
    IF n = 0 THEN {<<>>}
    ELSE LET shorter == ChunkLists(S, n - 1)
         IN shorter \cup {Append(l, c) : l \in shorter, c \in S}

\* chunks of code, of the new-palette marker and of the greatest type, in
\* the first and in the last bank, empty and not
SmallChunks ==
    {Chunk(t, b, p) : t \in {5, 17, 31}, b \in {0, 7}, p \in {<<>>, <<9>>}}

\* chunks whose length needs both bytes, the greatest length among them
LongChunks ==
    {Chunk(16, 0, [k \in 1..n |-> k % 256]) : n \in {255, 256, 300, 65535}}

InitTic ==
    /\ cartridge \in ChunkLists(SmallChunks, MaxCartChunks)
                      \cup {<<c>> : c \in LongChunks}
                      \cup {<<c, d>> : c \in LongChunks, d \in SmallChunks}
    /\ file = <<>>
    /\ loaded = <<>>
    /\ code_lengths = <<>>
    /\ symbol = 0
    /\ code = <<>>
    /\ pc = "save"
    /\ tt = <<>>
    /\ renames = EmptyMap
    /\ out = <<>>
    /\ stream = <<>>
    /\ input = <<>>
    /\ apc = "idle"
    /\ bitstream = BitstreamNew
    /\ data = AnalysisData(<<>>, <<>>, <<>>)
    /\ blocks = <<>>
    /\ is_final = FALSE
    /\ block = <<>>
    /\ huff_lit_length = <<>>
    /\ huff_distance = <<>>
    /\ lz_items = <<>>
    /\ PackIdle

\* tic_file::save
Save ==
    /\ pc = "save"
    /\ file' = save(cartridge)
    /\ pc' = "saved"
    /\ UNCHANGED <<cartridge, loaded, code_lengths, symbol>>
    /\ UNCHANGED <<code, tt, renames, out>>
    /\ UNCHANGED deflateVars
    /\ UNCHANGED packVars

\* tic_file::load on the file save wrote
Load ==
    /\ pc = "saved"
    /\ loaded' = load(file)
    /\ pc' = "loaded"
    /\ UNCHANGED <<cartridge, file, code_lengths, symbol>>
    /\ UNCHANGED <<code, tt, renames, out>>
    /\ UNCHANGED deflateVars
    /\ UNCHANGED packVars

NextTic == Save \/ Load

SpecTic == InitTic /\ [][NextTic]_vars

----------------------------------------------------------------------------
(* The compressors of main.rs (zopfli, flate2).  They are outside the      *)
(* repository: what they choose is left open between two ways to compress, *)
(* one that emits every byte as a literal and one that takes the longest   *)
(* match at every offset.                                                  *)

BytesOf(c) == [k \in 1..Len(c) |-> ByteOf(c[k])]

\* the length of the match at offset p with the data distance bytes back,
\* 258 at most
MatchLen(bytes, p, distance) ==
    LET stops == {k \in 0..257 :
                    \/ p + k >= Len(bytes)
                    \/ bytes[p + k + 1] # bytes[p + k + 1 - distance]}
    IN IF stops = {} THEN 258
       ELSE CHOOSE k \in stops : \A j \in stops : k <= j

AllLiterals(bytes) == [k \in 1..Len(bytes) |-> Literal(bytes[k])]

\* the longest match at every offset, the nearest of the longest ones, and
\* a literal where no match has three bytes
RECURSIVE Greedy(_, _)
Greedy(bytes, p) ==
    IF p >= Len(bytes) THEN <<>>
    ELSE LET longest == SetMax({MatchLen(bytes, p, d) : d \in 1..p} \cup {0})
             nearest == CHOOSE d \in 1..p :
                           /\ MatchLen(bytes, p, d) = longest
                           /\ \A e \in 1..p :
                                 MatchLen(bytes, p, e) = longest => d <= e
         IN IF longest >= 3
            THEN <<Match(longest, nearest)>> \o Greedy(bytes, p + longest)
            ELSE <<Literal(bytes[p + 1])>> \o Greedy(bytes, p + 1)

\* the streams a compressor may write for a code: one block with the fixed
\* codes
Plans(c) ==
    {<<[type |-> 1, items |-> AllLiterals(BytesOf(c))]>>,
     <<[type |-> 1, items |-> Greedy(BytesOf(c), 0)]>>}

\* RFC 1950: the Adler-32 checksum, most significant byte first
Adler32(bytes) ==
    LET n == Len(bytes)
        s1 == (1 + SeqSum(bytes, 1, n)) % 65521
        s2 == (n + SeqSum([j \in 1..n |-> (n - j + 1) * bytes[j]], 1, n))
                  % 65521
    IN <<s2 \div 256, s2 % 256, s1 \div 256, s1 % 256>>

\* RFC 1950: CMF and FLG of a 32K window at the highest level, the stream,
\* the checksum of the data
Zlib(plan, c) == <<120, 218>> \o Deflated(plan) \o Adler32(BytesOf(c))

\* data.truncate(data.len() - 4)
Truncated(d) == SubSeq(d, 1, Len(d) - 4)

----------------------------------------------------------------------------
(* The rename search of CmdPack::run (--auto-rename) and compress_code.    *)

\* the block type of every unpacked byte: 1 for a block with the fixed
\* codes, 2 for one with dynamic codes
BlockTypesOf(blks, n) ==
    LET ByteCount(item) == IF item.kind = "Literal" THEN 1
                           ELSE IF item.kind = "Match" THEN item.length
                           ELSE 0
        Size(k) == SeqSum([j \in 1..Len(blks[k].lz) |->
                              ByteCount(blks[k].lz[j])],
                          1, Len(blks[k].lz))
        Start(k) == SeqSum([j \in 1..Len(blks) |-> Size(j)], 1, k - 1)
    IN [i \in 1..n |->
          LET k == CHOOSE j \in 1..Len(blks) :
                      Start(j) < i /\ i <= Start(j) + Size(j)
          IN IF blks[k].block_type.kind = "DynamicHuffman" THEN 2 ELSE 1]

\* analysis.data()
AnalysisDataOf(an, blks) ==
    [unpacked |-> an.unpacked, literal_index |-> an.literal_index,
     cost |-> an.cost, block_type |-> BlockTypesOf(blks, Len(an.unpacked))]

\* analysis.total_size(): the bytes of the analysed stream
total_size == (bitstream.pos + 7) \div 8

\* the candidate the loop has just analysed
Candidate(c, rn, size) == [code |-> c, rename |-> rn, size |-> size]

\* zopfli(&code) and the call of analyze on its stream (lines 149 and 167)
Zopfli ==
    /\ pc \in {"serialized", "renamed"}
    /\ \E plan \in Plans(out) :
          /\ stream' = plan
          /\ input' = Deflated(plan)
    /\ apc' = "header"
    /\ bitstream' = BitstreamNew
    /\ data' = AnalysisData(<<>>, <<>>, <<>>)
    /\ blocks' = <<>>
    /\ is_final' = FALSE
    /\ block' = <<>>
    /\ huff_lit_length' = <<>>
    /\ huff_distance' = <<>>
    /\ lz_items' = <<>>
    /\ pc' = IF pc = "serialized" THEN "analyze" ELSE "reanalyze"
    /\ UNCHANGED unitVars
    /\ UNCHANGED <<code, tt, renames, out>>
    /\ UNCHANGED packVars

\* if self.auto_rename: the state of the search before its loop
StartAutoRename ==
    /\ pc = "analyze"
    /\ apc = "returned"
    /\ rename' = renames
    /\ best_rename' = renames
    /\ best_size' = total_size
    /\ best_code' = out
    /\ seen_renames' = {renames}
    /\ analysed' = <<Candidate(out, renames, total_size)>>
    /\ pc' = "loop"
    /\ UNCHANGED unitVars
    /\ UNCHANGED <<code, tt, renames, out, compressed, chunk>>
    /\ UNCHANGED deflateVars

\* the loop from its head to the serialisation of the renamed program; a
\* merged map that was seen before leaves the loop, and code = best_code
SuggestRenames ==
    /\ pc = "loop"
    /\ \E new_rename \in {compute_rename_suggestions(tt,
                              AnalysisDataOf(data, blocks))} :
          IF ~new_rename.ok
          THEN /\ pc' = "panicked"
               /\ UNCHANGED <<tt, out, rename, seen_renames>>
          ELSE \E merged \in {merge_renames(rename, new_rename.value)} :
                  /\ rename' = merged
                  /\ IF merged \in seen_renames
                     THEN /\ pc' = "done"
                          /\ out' = best_code
                          /\ UNCHANGED <<tt, seen_renames>>
                     ELSE /\ seen_renames' = seen_renames \cup {merged}
                          /\ \E r \in {serialize(apply_renames(tt,
                                            new_rename.value), " ")} :
                                /\ tt' = r.tt
                                /\ out' = r.code
                          /\ pc' = "renamed"
    /\ UNCHANGED unitVars
    /\ UNCHANGED <<code, renames, best_rename, best_size, best_code,
                   analysed, compressed, chunk>>
    /\ UNCHANGED deflateVars

\* a candidate is kept whatever its size
ImprovesAlways(size, best) == TRUE

\* if size < best_size
Improves(size, best) == size < best

\* the end of the loop body: the new code is kept if it is smaller
KeepBest ==
    /\ pc = "reanalyze"
    /\ apc = "returned"
    /\ \E size \in {total_size} :
          /\ IF Improves(size, best_size)
             THEN /\ best_rename' = rename
                  /\ best_size' = size
                  /\ best_code' = out
             ELSE UNCHANGED <<best_rename, best_size, best_code>>
          /\ analysed' = Append(analysed, Candidate(out, rename, size))
    /\ pc' = "loop"
    /\ UNCHANGED unitVars
    /\ UNCHANGED <<code, tt, renames, out, rename, seen_renames, compressed,
                   chunk>>
    /\ UNCHANGED deflateVars

\* compress_code up to its call of analyze: the two compressed streams
\* without their checksums, the shorter one analysed after its two header
\* bytes
CompressCode ==
    /\ pc = "done"
    /\ \E plan1 \in Plans(out), plan2 \in Plans(out) :
          \E zs \in {<<Truncated(Zlib(plan1, out)),
                       Truncated(Zlib(plan2, out))>>} :
             /\ compressed' = zs
             /\ stream' = IF Len(zs[2]) < Len(zs[1]) THEN plan2 ELSE plan1
             /\ input' = Drop(IF Len(zs[2]) < Len(zs[1]) THEN zs[2]
                              ELSE zs[1], 2)
    /\ apc' = "header"
    /\ bitstream' = BitstreamNew
    /\ data' = AnalysisData(<<>>, <<>>, <<>>)
    /\ blocks' = <<>>
    /\ is_final' = FALSE
    /\ block' = <<>>
    /\ huff_lit_length' = <<>>
    /\ huff_distance' = <<>>
    /\ lz_items' = <<>>
    /\ pc' = "compressed"
    /\ UNCHANGED unitVars
    /\ UNCHANGED <<code, tt, renames, out>>
    /\ UNCHANGED <<rename, best_rename, best_size, best_code, seen_renames,
                   analysed, chunk>>

\* the chunk compress_code returns after the analysis
EmitChunk ==
    /\ pc = "compressed"
    /\ apc = "returned"
    /\ \E d \in {IF Len(compressed[2]) < Len(compressed[1])
                 THEN compressed[2] ELSE compressed[1]} :
          chunk' = IF Len(out) <= Len(d)
                   THEN [type_ |-> 5, bank |-> 0, data |-> BytesOf(out)]
                   ELSE [type_ |-> 16, bank |-> 0, data |-> d]
    /\ pc' = "emitted"
    /\ UNCHANGED unitVars
    /\ UNCHANGED <<code, tt, renames, out>>
    /\ UNCHANGED <<rename, best_rename, best_size, best_code, seen_renames,
                   analysed, compressed>>
    /\ UNCHANGED deflateVars


----------------------------------------------------------------------------
(* Specifications of the rename search and of compress_code.               *)

\* a=1 b=a
ProgramCopy ==
    <<"a","=","1"," ","b","=","a">>

\* x=x+1 print(x)
ProgramPrint ==
    <<"x","=","x","+","1"," ","p","r","i","n","t","(","x",")">>

\* function f()end f()
ProgramFunction ==
    <<"f","u","n","c","t","i","o","n"," ","f","(",")","e","n","d"," ","f",
      "(",")">>

\* ab=1 ab=1 ab=1
ProgramRepeat ==
    <<"a","b","=","1"," ","a","b","=","1"," ","a","b","=","1">>

\* --rename a->b\na=1 c=a
ProgramDirective ==
    <<"-","-","r","e","n","a","m","e"," ","a","-",">","b","\n","a","=","1",
      " ","c","=","a">>

\* function TIC()t=1 end
ProgramEntry ==
    <<"f","u","n","c","t","i","o","n"," ","T","I","C","(",")","t","=","1",
      " ","e","n","d">>

\* a=1 load"b=a"
ProgramLoad ==
    <<"a","=","1"," ","l","o","a","d","\"","b","=","a","\"">>

\* MaxMatch + 1 digits after x=: a run the compressor can pack as one
\* literal and one match of the greatest length
ProgramRun == <<"x","=">> \o [k \in 1..(MaxMatch + 1) |-> "1"]

\* i=1 e=i+i p=e+e+e
ProgramSum ==
    <<"i","=","1"," ","e","=","i","+","i"," ","p","=","e","+","e","+","e">>

\* --rename x->y\nx=1 y=x
ProgramCapture ==
    <<"-","-","r","e","n","a","m","e"," ","x","-",">","y","\n","x","=","1",
      " ","y","=","x">>

\* g=x
ProgramGlobal == <<"g","=","x">>

AutoPrograms ==
    {ProgramCopy, ProgramPrint, ProgramFunction, ProgramRepeat,
     ProgramDirective, ProgramEntry, ProgramLoad, ProgramRun, ProgramSum,
     ProgramCapture, ProgramGlobal}

\* analyze has not been called
AnalyzeIdle ==
    /\ stream = <<>>
    /\ input = <<>>
    /\ apc = "idle"
    /\ bitstream = BitstreamNew
    /\ data = AnalysisData(<<>>, <<>>, <<>>)
    /\ blocks = <<>>
    /\ is_final = FALSE
    /\ block = <<>>
    /\ huff_lit_length = <<>>
    /\ huff_distance = <<>>
    /\ lz_items = <<>>

\* pack --auto-rename on a program
InitAuto ==
    /\ code \in AutoPrograms
    /\ pc = "start"
    /\ tt = <<>>
    /\ renames = EmptyMap
    /\ out = <<>>
    /\ AnalyzeIdle
    /\ PackIdle
    /\ UnitIdle

NextAuto ==
    \/ Parse
    \/ Serialize
    \/ Zopfli
    \/ ReadBlockHeader
    \/ DecodeItem
    \/ Redistribute
    \/ StartAutoRename
    \/ SuggestRenames
    \/ KeepBest
    \/ CompressCode
    \/ EmitChunk

SpecAuto == InitAuto /\ [][NextAuto]_vars

\* The same program run to its end: CmdPack::run is one thread that takes
\* its next step whenever it has one.  For the actions that are one long
\* computation, weak fairness is written with ENABLED <<A>>_vars spelled out
\* as the guard of A (every step of these actions changes pc or apc).
FairParse == ([]<>(pc # "start")) \/ ([]<><<Parse>>_vars)

FairZopfli ==
    ([]<>(pc \notin {"serialized", "renamed"})) \/ ([]<><<Zopfli>>_vars)

FairDecodeItem == ([]<>(apc # "decode")) \/ ([]<><<DecodeItem>>_vars)

FairSuggestRenames == ([]<>(pc # "loop")) \/ ([]<><<SuggestRenames>>_vars)

FairSerialize == ([]<>(pc # "parsed")) \/ ([]<><<Serialize>>_vars)

FairReadBlockHeader ==
    ([]<>(apc # "header")) \/ ([]<><<ReadBlockHeader>>_vars)

FairRedistribute ==
    ([]<>(apc # "redistribute")) \/ ([]<><<Redistribute>>_vars)

FairCompressCode == ([]<>(pc # "done")) \/ ([]<><<CompressCode>>_vars)

FairAuto ==
    /\ FairParse
    /\ FairSerialize
    /\ FairZopfli
    /\ FairReadBlockHeader
    /\ FairDecodeItem
    /\ FairRedistribute
    /\ WF_vars(StartAutoRename)
    /\ FairSuggestRenames
    /\ WF_vars(KeepBest)
    /\ FairCompressCode
    /\ WF_vars(EmitChunk)

SpecAutoFair == SpecAuto /\ FairAuto

\* the codes compress_code is called with under --no-transform: runs of
\* one byte, and runs of two bytes in turn
PackCodes ==
    {[k \in 1..n |-> "a"] : n \in 0..MaxRun}
    \cup {[k \in 1..n |-> IF k % 2 = 1 THEN "a" ELSE "b"] : n \in 0..MaxRun}
    \cup {[k \in 1..(MaxMatch + 1) |-> "a"]}

\* compress_code(code, iterations)
InitPack ==
    /\ code \in PackCodes
    /\ out = code
    /\ pc = "done"
    /\ tt = <<>>
    /\ renames = EmptyMap
    /\ AnalyzeIdle
    /\ PackIdle
    /\ UnitIdle

NextPack ==
    \/ CompressCode
    \/ ReadBlockHeader
    \/ DecodeItem
    \/ Redistribute
    \/ EmitChunk

SpecPack == InitPack /\ [][NextPack]_vars

----------------------------------------------------------------------------
(* Notions the properties are stated in.                                   *)

\* a token tree with the offsets left out
RECURSIVE StripOffsets(_)
StripOffsets(tree) ==
    [i \in 1..Len(tree) |->
        IF tree[i].kind = "Token"
        THEN [tree[i] EXCEPT !.offset = 0]
        ELSE [tree[i] EXCEPT !.tt = StripOffsets(tree[i].tt)]]

\* is there a comment anywhere in the tree
RECURSIVE HasComment(_)
HasComment(tree) ==
    \E i \in 1..Len(tree) :
        IF tree[i].kind = "Token"
        THEN tree[i].type = "Comment"
        ELSE HasComment(tree[i].tt)

\* the flat token sequence of a byte string: next_token until EOF
RECURSIVE TokeniseFrom(_, _)
TokeniseFrom(s, offset) ==
    LET t == next_token(s, offset)
    IN IF t.type = "EOF" THEN <<>>
       ELSE <<[type |-> t.type, text |-> t.text]>> \o TokeniseFrom(s, t.offset)

Tokenise(s) == TokeniseFrom(s, 0)

\* s without the byte at offset p
RemoveAt(s, p) == SubSeq(s, 1, p) \o SubSeq(s, p + 2, Len(s))

\* what serialize emits for a tree, in document order: the tokens that are
\* no comments, each with the delimiter stack it is emitted under, and the
\* opening and closing delimiters of the code strings
RECURSIVE Emitted(_, _)
Emitted(tree, stack) ==
    IF tree = <<>> THEN <<>>
    ELSE LET t == Head(tree)
             this ==
                IF t.kind = "Token"
                THEN IF t.type = "Comment" THEN <<>>
                     ELSE <<[ev |-> "token", type |-> t.type, text |-> t.text,
                             offset |-> t.offset, stack |-> stack]>>
                ELSE IF t.kind = "SubTree" THEN Emitted(t.tt, stack)
                ELSE <<[ev |-> "open", delim |-> t.delim, stack |-> stack]>>
                     \o Emitted(t.tt, DelimPush(stack, t.delim))
                     \o <<[ev |-> "close", delim |-> t.delim, stack |-> stack]>>
         IN this \o Emitted(Tail(tree), stack)

EmittedTokens(tree) == SelectSeq(Emitted(tree, <<>>), LAMBDA e : e.ev = "token")

\* the offsets at which serialize pushed a separator
SeparatorOffsets == serialize(tt, " ").seps

\* the identifier texts of a tree in document order, sub-trees and code
\* strings included
RECURSIVE Idents(_)
Idents(tree) ==
    IF tree = <<>> THEN <<>>
    ELSE LET t == Head(tree)
         IN (IF t.kind = "Token"
             THEN IF t.type = "Identifier" THEN <<t.text>> ELSE <<>>
             ELSE Idents(t.tt))
            \o Idents(Tail(tree))

\* the tokens of a tree of parse_subtree, sub-trees included
RECURSIVE FlatTokens(_)
FlatTokens(tree) ==
    IF tree = <<>> THEN <<>>
    ELSE (IF Head(tree).kind = "Token" THEN <<Head(tree)>>
          ELSE FlatTokens(Head(tree).tt))
         \o FlatTokens(Tail(tree))

----------------------------------------------------------------------------
(* Properties of the tokeniser and the serialiser.                         *)

\* C1: round-trip minification: for an input without comments, parsing the
\* serialiser's output gives the token tree of the input (offsets ignored).
C1_RoundTrip ==
    (pc = "serialized" /\ ~HasComment(parse(code)))
        => StripOffsets(parse(out)) = StripOffsets(parse(code))

FollowsIdentifier(p) ==
    \E i \in 1..Len(EmittedTokens(tt)) :
        LET e == EmittedTokens(tt)[i]
        IN /\ e.type = "Identifier"
           /\ e.offset + Len(EncodeText(e.text, e.stack)) = p

RuleAsClaimed(prev_type, prev_text, text) ==
    \/ prev_type = "Identifier" /\ text[1] \in AlphaNum \cup {"_"}
    \/ /\ prev_type = "Number"
       /\ \/ text[1] \in HexDigit \cup {"."}
          \/ /\ text[1] \in {"x", "X"}
             /\ prev_text[Len(prev_text)] = "0"
    \/ prev_type = "HexNumber" /\ text[1] \in HexDigit \cup {".", "p", "P"}

\* the rule with the number case on the whole text of the previous number
RuleAmended(prev_type, prev_text, text) ==
    \/ prev_type = "Identifier" /\ text[1] \in AlphaNum \cup {"_"}
    \/ /\ prev_type = "Number"
       /\ \/ text[1] \in HexDigit \cup {"."}
          \/ /\ text[1] \in {"x", "X"}
             /\ prev_text \in {<<"0">>, <<".", "0">>}
    \/ prev_type = "HexNumber" /\ text[1] \in HexDigit \cup {".", "p", "P"}

\* walk what was emitted: every token sits right after what precedes it,
\* behind exactly one separator byte if the rule asks for one and behind
\* none otherwise; reset says whether an opening delimiter makes the
\* previous token count as Other
RECURSIVE FollowsRule(_, _, _, _, _, _)
FollowsRule(evs, pos, prev_type, prev_text, Rule(_, _, _), reset) ==
    IF evs = <<>> THEN pos = Len(out)
    ELSE LET e == Head(evs)
         IN IF e.ev = "token"
            THEN LET sep == Rule(prev_type, prev_text, e.text)
                 IN /\ e.offset = IF sep THEN pos + 1 ELSE pos
                    /\ sep => out[pos + 1] = " "
                    /\ FollowsRule(Tail(evs),
                                   e.offset + Len(EncodeText(e.text, e.stack)),
                                   e.type, e.text, Rule, reset)
            ELSE FollowsRule(Tail(evs),
                             pos + Len(encode(e.delim, e.stack)),
                             IF e.ev = "open" /\ reset THEN "Other" ELSE prev_type,
                             prev_text, Rule, reset)

\* C3 as claimed: one separator before a token iff the token emitted
\* immediately before it is an Identifier, Number or HexNumber and the new
\* token begins as (a), (b), (c) say.
C3_SeparatorRule ==
    pc = "serialized" =>
        FollowsRule(Emitted(tt, <<>>), 0, "Other", <<>>, RuleAsClaimed, FALSE)

\* C3, amended: the same with (b) reading "x/X when the previous number's
\* text is exactly 0 or .0", and with the first token after the opening
\* delimiter of a code string never separated.
C3_SeparatorRuleAmended ==
    pc = "serialized" =>
        FollowsRule(Emitted(tt, <<>>), 0, "Other", <<>>, RuleAmended, TRUE)

\* the number 0 was followed by a token beginning with x and separated
C3_Witness ==
    /\ pc = "serialized"
    /\ \E i \in 1..(Len(EmittedTokens(tt)) - 1) :
          LET e == EmittedTokens(tt)[i]
              f == EmittedTokens(tt)[i + 1]
          IN /\ e.type = "Number" /\ e.text = <<"0">>
             /\ f.text[1] = "x"
             /\ f.offset = e.offset + 2

\* C4: offset fidelity: after serialize every token that is no comment has
\* the offset of its encoded text in the output, and the offsets do not
\* decrease in document order.
C4_OffsetFidelity ==
    pc = "serialized" =>
        LET toks == EmittedTokens(tt)
        IN /\ \A i \in 1..Len(toks) :
                LET enc == EncodeText(toks[i].text, toks[i].stack)
                IN SubSeq(out, toks[i].offset + 1, toks[i].offset + Len(enc)) = enc
           /\ \A i \in 1..(Len(toks) - 1) : toks[i].offset <= toks[i + 1].offset

\* a token inside a code string whose bytes are escaped
C4_Witness ==
    /\ pc = "serialized"
    /\ \E i \in 1..Len(EmittedTokens(tt)) :
          LET e == EmittedTokens(tt)[i]
          IN e.stack # <<>> /\ Len(EncodeText(e.text, e.stack)) > Len(e.text)

Renamed(rn, name) == IF name \in DOMAIN rn THEN rn[name] ELSE name

\* no top-level transform-to-load directive in the input
NoTransformDirective ==
    \A i \in 1..Len(parse(code)) :
        LET t == parse(code)[i]
        IN ~(t.kind = "Token" /\ t.type = "Comment" /\ ReTransformToLoad(t.text))

\* C5: rename in nested code: the rename map replaces every identifier
\* equal to OLD by NEW, in sub-trees and in code strings too, and the
\* minified test program carries the new name inside the load string.
C5_RenameInNestedCode ==
    /\ (pc # "start" /\ NoTransformDirective) =>
          LET before == Idents(find_renames(parse(code)).tt)
          IN Idents(tt) = [i \in 1..Len(before) |-> Renamed(renames, before[i])]
    /\ (pc = "serialized" /\ code = Test15.input) => out = Test15.output

\* a renamed identifier inside a code string
C5_Witness ==
    /\ pc = "serialized"
    /\ DOMAIN renames # {}
    /\ \E i \in 1..Len(tt) :
          /\ tt[i].kind = "CodeString"
          /\ \E j \in 1..Len(Idents(tt[i].tt)) :
                \E k \in DOMAIN renames : Idents(tt[i].tt)[j] = renames[k]
    /\ \E i \in 1..Len(Idents(find_renames(parse(code)).tt)) :
          Idents(find_renames(parse(code)).tt)[i] \in DOMAIN renames

\* C6: bit-exact nested code strings: for every code string of the tree
\* the output holds a string token from its opening to its closing
\* delimiter, whose unescaped content is the serialised inner tree and
\* whose re-parse is the code string itself.
C6_BitExactCodeStrings ==
    (pc = "serialized" /\ ~HasComment(tt)) =>
        \A k \in 1..Len(tt) :
            tt[k].kind = "CodeString" =>
                LET open == Len(serialize(SubSeq(tt, 1, k - 1), " ").code)
                    close == Len(serialize(SubSeq(tt, 1, k), " ").code)
                    tok == next_token(out, open)
                IN /\ tok.type = "String"
                   /\ tok.start = open
                   /\ tok.offset = close
                   /\ UnescapeLoop(tok.text, open, 1, <<>>, <<>>).code
                          = serialize(tt[k].tt, " ").code
                   /\ StripOffsets(<<make_code_string(tok.text, open)>>)
                          = StripOffsets(<<tt[k]>>)

\* C7: tokeniser totality: the outer sequence ends at end-of-input and
\* every byte of the input that is no white space lies in exactly one token.
C7_ParseCoversInput ==
    pc = "parsed" =>
        LET r == parse_subtree(<<>>, code, 0)
            toks == FlatTokens(r.tokens)
        IN /\ r.offset = Len(code)
           /\ \A b \in 0..(Len(code) - 1) :
                code[b + 1] \notin WhiteSpace =>
                    Cardinality({i \in 1..Len(toks) :
                        /\ toks[i].offset <= b
                        /\ b < toks[i].offset + Len(toks[i].text)}) = 1

----------------------------------------------------------------------------
(* Properties of the DEFLATE analyser.                                     *)

\* the items decoded so far, those of the current block included
AllItems == Flatten([k \in 1..Len(blocks) |-> blocks[k].lz]) \o lz_items

\* the bits of the literal codes and of the four items of every match
RECURSIVE PayloadBits(_)
PayloadBits(items) ==
    IF items = <<>> THEN 0
    ELSE PayloadBits(Tail(items))
         + (IF Head(items).kind = "Literal" THEN Head(items).item.length
            ELSE IF Head(items).kind = "Match"
            THEN Head(items).length_base.length + Head(items).length_ext.length
                 + Head(items).offset_base.length + Head(items).offset_ext.length
            ELSE 0)

RECURSIVE SumCost(_)
SumCost(cost) ==
    IF cost = <<>> THEN F32Zero ELSE F32Add(Head(cost), SumCost(Tail(cost)))

\* for every output byte, whether a literal item emitted it
ByLiteral(items) ==
    Flatten([k \in 1..Len(items) |->
                IF items[k].kind = "Literal" THEN <<TRUE>>
                ELSE IF items[k].kind = "Match"
                THEN [i \in 1..items[k].length |-> FALSE]
                ELSE <<>>])

\* the number of output bytes before item k
RECURSIVE StartOf(_, _)
StartOf(items, k) ==
    IF k = 1 THEN 0
    ELSE StartOf(items, k - 1)
         + (IF items[k - 1].kind = "Literal" THEN 1
            ELSE IF items[k - 1].kind = "Match" THEN items[k - 1].length
            ELSE 0)

\* C8: for every byte string and every valid raw DEFLATE encoding of it in
\* static and dynamic blocks, analyze returns, and unpacked is that byte
\* string
C8_DeflateInverse ==
    /\ apc # "panicked"
    /\ apc = "returned" => data.unpacked = Inflated(ItemsOf(stream), <<>>)

\* C9: the costs of the output bytes add up to the bits of the literal
\* codes and of the length code, length extra, distance code and distance
\* extra items of the matches, before the redistribution and after it
C9_CostConservation ==
    SumCost(data.cost) = F32(PayloadBits(AllItems), 1)

\* analyze has returned, a match had extra bits, and the redistribution has
\* moved cost to or from the origin of a copied byte
C9_Witness ==
    /\ apc = "returned"
    /\ \E k \in 1..Len(AllItems) :
          /\ AllItems[k].kind = "Match"
          /\ AllItems[k].length_ext.length + AllItems[k].offset_ext.length > 0
    /\ \E i \in 1..Len(data.literal_index) :
          /\ data.literal_index[i] # UsizeMax
          /\ data.cost[data.literal_index[i] + 1][2] # 1

\* C10: unpacked, literal_index and cost have the same length, and every
\* output byte either has the sentinel as literal_index and was emitted by
\* a literal, or was emitted by a match and has the index of an earlier
\* byte that has the sentinel and the same value
C10_LiteralAttribution ==
    /\ Len(data.unpacked) = Len(data.literal_index)
    /\ Len(data.unpacked) = Len(data.cost)
    /\ LET by_literal == ByLiteral(AllItems)
       IN /\ Len(by_literal) = Len(data.unpacked)
          /\ \A i \in 1..Len(data.unpacked) :
                LET j == data.literal_index[i]
                IN IF by_literal[i] THEN j = UsizeMax
                   ELSE /\ j # UsizeMax
                        /\ 0 <= j /\ j < i - 1
                        /\ data.literal_index[j + 1] = UsizeMax
                        /\ data.unpacked[j + 1] = data.unpacked[i]

\* a match in the second block has copied a byte that a match of the first
\* block had copied
C10_Witness ==
    /\ Len(blocks) = 2
    /\ \E k \in 1..Len(AllItems) :
          /\ AllItems[k].kind = "Match"
          /\ k > Len(blocks[1].lz)
          /\ LET copy_base == StartOf(AllItems, k) - AllItems[k].offset
             IN /\ copy_base < StartOf(AllItems, Len(blocks[1].lz) + 1)
                /\ ~ByLiteral(AllItems)[copy_base + 1]
                /\ data.literal_index[StartOf(AllItems, k) + 1]
                       < copy_base

----------------------------------------------------------------------------
(* Properties of the rename search (SpecAuto).                             *)

\* the loop of --auto-rename has been entered
InSearch == analysed # <<>>

\* the least size among the candidates analysed so far
LeastAnalysed ==
    CHOOSE m \in {analysed[i].size : i \in 1..Len(analysed)} :
        \A i \in 1..Len(analysed) : m <= analysed[i].size

\* the kept size is the least size analysed so far, and the kept code and
\* rename map are those of a candidate of that size
C11_BestIsLeast ==
    InSearch =>
        /\ best_size = LeastAnalysed
        /\ \E i \in 1..Len(analysed) :
              analysed[i] = Candidate(best_code, best_rename, best_size)

\* after the loop the code that goes on is the kept one
C11_BestIsEmitted ==
    /\ pc \in {"done", "compressed", "emitted"} /\ InSearch => out = best_code
    /\ pc = "emitted" /\ InSearch =>
          \/ chunk = [type_ |-> 5, bank |-> 0, data |-> BytesOf(best_code)]
          \/ /\ chunk.type_ = 16
             /\ \E plan \in Plans(best_code) :
                   chunk.data = Truncated(Zlib(plan, best_code))

\* from one iteration to the next the kept size does not grow
C11_NeverGrows == InSearch => best_size' <= best_size

\* C11: in the auto-rename loop the kept compressed size never increases
\* from one iteration to the next; at every iteration it is the least size
\* of all candidates analysed so far, the first one included; the kept code
\* and rename map are those of the candidate that reached it, and that code
\* is the one emitted.
C11_MonotoneImprovement ==
    /\ [](C11_BestIsLeast /\ C11_BestIsEmitted)
    /\ [][C11_NeverGrows]_vars

\* the search ended after three candidates or more, one of them smaller
\* than the first and one of them larger than the kept one
C11_Witness ==
    /\ pc = "emitted"
    /\ Len(analysed) >= 3
    /\ best_size < analysed[1].size
    /\ \E i \in 2..Len(analysed) : analysed[i].size > best_size

\* the loop leaves exactly when the merged map was seen before, and then
\* the map is not applied: the tree and the set of seen maps stay
C12_ExitRule ==
    pc = "loop" /\ pc' # "panicked" =>
        /\ pc' = "done" <=> rename' \in seen_renames
        /\ pc' = "renamed" <=> rename' \notin seen_renames
        /\ pc' = "done" => tt' = tt /\ seen_renames' = seen_renames
        /\ pc' = "renamed" => seen_renames' = seen_renames \cup {rename'}

\* C12: for every program and every behaviour of the compressor the
\* auto-rename loop terminates: it exits at the first iteration whose merged
\* rename map is already among the maps seen, without applying that map,
\* and such an iteration is always reached.
C12_AutoRenameTerminates ==
    /\ [][C12_ExitRule]_vars
    /\ (pc = "loop") ~> (pc = "done")

----------------------------------------------------------------------------
(* Properties of get_rename_candidates (SpecCand).                         *)

\* every token list of a tree: the tree, and the lists of its sub-trees and
\* code strings
RECURSIVE TokenLists(_)
TokenLists(tree) ==
    {tree} \cup UNION {TokenLists(tree[i].tt) :
                          i \in {k \in 1..Len(tree) : tree[k].kind # "Token"}}

IsIdentifier(t) == t.kind = "Token" /\ t.type = "Identifier"

\* the identifier texts of a tree
IdentifierTexts(tree) ==
    {l[i].text : <<l, i>> \in
        {<<m, k>> \in UNION {{m} \X (1..Len(m)) : m \in TokenLists(tree)} :
            IsIdentifier(m[k])}}

\* l[i] is an identifier immediately followed by the Other token =
Assigned(l, i) ==
    /\ IsIdentifier(l[i])
    /\ i < Len(l)
    /\ l[i + 1].kind = "Token"
    /\ l[i + 1].type = "Other"
    /\ l[i + 1].text = <<"=">>

\* l[i] is an identifier immediately preceded by the identifier function
Declared(l, i) ==
    /\ IsIdentifier(l[i])
    /\ i > 1
    /\ IsIdentifier(l[i - 1])
    /\ l[i - 1].text = kwFunction

\* the identifier texts assigned or declared somewhere in the tree
AssignedOrDeclared(tree) ==
    {X \in IdentifierTexts(tree) :
        \E l \in TokenLists(tree) : \E i \in 1..Len(l) :
            /\ IsIdentifier(l[i])
            /\ l[i].text = X
            /\ Assigned(l, i) \/ Declared(l, i)}

\* C13: get_rename_candidates classifies an identifier text X as renameable
\* if and only if somewhere in the tree, in any sub-tree or code string, an
\* Identifier X is immediately followed by the Other token = or immediately
\* preceded by the Identifier function, and X is none of TIC, SCN, OVR;
\* every other identifier text is in fixed; renameable and fixed are
\* disjoint, and TIC, SCN and OVR are never renameable.
C13_RenameableDiscovery ==
    pc # "start" =>
        LET candidates == get_rename_candidates(tt)
            renameable == DOMAIN candidates.renameable
        IN /\ renameable = AssignedOrDeclared(tt) \ EntryPoints
           /\ candidates.fixed = IdentifierTexts(tt) \ renameable
           /\ renameable \cap candidates.fixed = {}
           /\ renameable \cap EntryPoints = {}

\* inside a code string TIC is assigned and stays fixed, and another
\* identifier is assigned and is renameable
C13_Witness ==
    /\ pc = "parsed"
    /\ \E i \in 1..Len(tt) :
          /\ tt[i].kind = "CodeString"
          /\ \E k \in 1..Len(tt[i].tt) :
                Assigned(tt[i].tt, k) /\ tt[i].tt[k].text \in EntryPoints
          /\ \E k \in 1..Len(tt[i].tt) :
                /\ Assigned(tt[i].tt, k)
                /\ tt[i].tt[k].text
                       \in DOMAIN get_rename_candidates(tt).renameable
    /\ <<"T","I","C">> \in get_rename_candidates(tt).fixed

----------------------------------------------------------------------------
(* Properties of analyze on malformed streams (SpecMalformed).             *)

\* the stream under analysis is none a compressor wrote
Malformed == input \in MalformedStreams

\* C14: when the compressed stream is malformed (no matching Huffman code,
\* a read past the end of the input, a repeat with no previous length, code
\* lengths overrunning their number, a length or distance symbol outside
\* the tables, block type 0 or 3), the analysis is aborted and reported to
\* the caller as a decode failure; the build does not crash.
C14_DecodeFailureHandled == Malformed => apc # "panicked"

----------------------------------------------------------------------------
(* Comments in the serialiser.                                             *)

\* a token tree with its Comment tokens left out, at every depth
RECURSIVE WithoutComments(_)
WithoutComments(tree) ==
    IF tree = <<>> THEN <<>>
    ELSE LET t == Head(tree)
         IN (IF t.kind = "Token"
             THEN IF t.type = "Comment" THEN <<>> ELSE <<t>>
             ELSE <<[t EXCEPT !.tt = WithoutComments(t.tt)]>>)
            \o WithoutComments(Tail(tree))

\* is text a long-bracket comment that spans a newline
IsLongComment(text) ==
    /\ ReLongBracketComment(text) # NoMatch
    /\ \E k \in 1..Len(text) : text[k] = "\n"

\* C15: comments are dropped: the bytes serialize writes are the bytes it
\* writes for the same tree with every Comment token taken out (serialize
\* rewrites only the offsets of tt), so no byte of a comment is emitted and
\* the tokens on both sides of a comment are separated as adjacent tokens
\* are; 'a = --[=[ blah \n blub ]=] 4' gives 'a=4'.
C15_CommentsDropped ==
    /\ pc = "serialized" => out = serialize(WithoutComments(tt), " ").code
    /\ (pc = "serialized" /\ code = Test14.input) => out = <<"a", "=", "4">>

\* a long-bracket comment over a newline between two tokens that are written
C15_Witness ==
    /\ pc = "serialized"
    /\ \E i \in 2..(Len(tt) - 1) :
          /\ tt[i].kind = "Token" /\ tt[i].type = "Comment"
          /\ IsLongComment(tt[i].text)
          /\ tt[i - 1].kind = "Token" /\ tt[i - 1].type = "Identifier"
          /\ tt[i + 1].kind = "Token" /\ tt[i + 1].type = "Number"
          /\ out = tt[i - 1].text \o <<" ">> \o tt[i + 1].text

----------------------------------------------------------------------------
(* Long brackets and quoted strings in the tokeniser.                      *)

\* does s hold, from offset p on, a bracket b, n equals signs and b again
IsBracket(s, p, n, b) ==
    /\ p + n + 2 <= Len(s)
    /\ s[p + 1] = b
    /\ \A k \in 1..n : s[p + 1 + k] = "="
    /\ s[p + n + 2] = b

\* the offsets behind the opener at p at which a closer of level n starts
Closers(s, p, n) ==
    {q \in (p + n + 2)..Len(s) : IsBracket(s, q, n, "]")}

\* the offset behind the first closer of level n that follows the opener at p
FirstCloserEnd(s, p, n) ==
    (CHOOSE q \in Closers(s, p, n) : \A r \in Closers(s, p, n) : q <= r)
        + n + 2

\* C16: long-bracket tokenisation: where the input holds '[', n '=' and '['
\* and a closer ']', n '=', ']' follows, next_token returns one token of type
\* Other from there through the first such closer, whatever closers of other
\* levels lie inside, and leaves the offset right behind the closer; the
\* tree of the parser holds that token and goes on with the token read
\* there.  '[==[foo[=[bar]=]baz]==]...' gives the long bracket and three
\* '.' tokens.
C16_LongBracketToken ==
    /\ pc = "parsed" =>
          \A p \in 0..(Len(code) - 1) : \A n \in 0..Len(code) :
              (IsBracket(code, p, n, "[") /\ Closers(code, p, n) # {}) =>
                  LET t == next_token(code, p)
                      e == FirstCloserEnd(code, p, n)
                  IN /\ t.type = "Other"
                     /\ t.start = p
                     /\ t.text = SubSeq(code, p + 1, e)
                     /\ t.offset = e
                     /\ \A k \in 1..Len(tt) :
                           (tt[k].kind = "Token" /\ tt[k].offset = p) =>
                               /\ tt[k].text = t.text
                               /\ k < Len(tt) =>
                                     /\ tt[k + 1].kind = "Token"
                                     /\ tt[k + 1].text = next_token(code, e).text
                                     /\ tt[k + 1].offset = next_token(code, e).start
    /\ (pc = "parsed" /\ code = MultilineStrings) =>
          [k \in 1..Len(tt) |-> tt[k].text] =
              <<SubSeq(MultilineStrings, 1, 23), <<".">>, <<".">>, <<".">> >>

\* a long bracket of level 1 with a closer of level 0 inside, read as one
\* token of the tree and followed by another token
C16_Witness ==
    /\ pc = "parsed"
    /\ \E k \in 1..(Len(tt) - 1) :
          /\ tt[k].kind = "Token" /\ tt[k].type = "Other"
          /\ IsBracket(tt[k].text, 0, 1, "[")
          /\ \E q \in 3..(Len(tt[k].text) - 4) : IsBracket(tt[k].text, q, 0, "]")
          /\ IsBracket(tt[k].text, Len(tt[k].text) - 3, 1, "]")
          /\ tt[k + 1].kind = "Token"
          /\ tt[k + 1].offset = tt[k].offset + Len(tt[k].text)

\* the backslashes that stand in s right before offset q, not before offset p
RECURSIVE BackslashesBefore(_, _, _)
BackslashesBefore(s, p, q) ==
    IF q > p /\ s[q] = "\\" THEN 1 + BackslashesBefore(s, p, q - 1) ELSE 0

\* is the byte at offset q of the string opened at offset p consumed by a
\* backslash: a backslash consumes the byte behind it unless it is consumed
\* itself, so the byte is consumed when an odd run of backslashes precedes it
Consumed(s, p, q) == BackslashesBefore(s, p + 1, q) % 2 = 1

\* the offsets at which the quote that opens at p occurs again unconsumed
ClosingQuotes(s, p) ==
    {q \in (p + 1)..(Len(s) - 1) : s[q + 1] = s[p + 1] /\ ~Consumed(s, p, q)}

\* the offset behind the first of them
FirstQuoteEnd(s, p) ==
    (CHOOSE q \in ClosingQuotes(s, p) : \A r \in ClosingQuotes(s, p) : q <= r) + 1

----------------------------------------------------------------------------
(* Properties of compress_code (SpecPack).                                 *)

\* the chunk is the one the lengths of the raw code and of the two streams
\* call for
C18_ChunkChoice ==
    pc = "emitted" =>
        LET raw == BytesOf(out)
            least == Min(Len(compressed[1]), Len(compressed[2]))
        IN /\ least < Len(raw) =>
                 /\ chunk.type_ = 16
                 /\ chunk.data \in {compressed[1], compressed[2]}
                 /\ Len(chunk.data) = least
           /\ least >= Len(raw) =>
                 /\ chunk.type_ = 5
                 /\ chunk.data = raw
           /\ Len(chunk.data) <= Len(raw)
           /\ Len(chunk.data) <= Len(compressed[1])
           /\ Len(chunk.data) <= Len(compressed[2])

\* compress_code reaches its return: the analysis it runs on the chosen
\* stream does not abort
C18_CompressCodeReturns == pc = "compressed" => apc # "panicked"

\* C18: compressed-chunk emission: compress_code emits a chunk of type 0x10
\* with the shorter of the two compressed streams, each without its four
\* checksum bytes, when that stream is strictly shorter than the raw code,
\* and the raw code as a chunk of type 0x05 otherwise; the payload is no
\* longer than the raw code or either stream.
C18_ChunkEmission == C18_ChunkChoice /\ C18_CompressCodeReturns

----------------------------------------------------------------------------
(* Properties of the costs of analyze (SpecDeflate).                       *)

\* the bytes of an whose literal_index is j
CopiesOf(an, j) ==
    {i \in 1..Len(an.literal_index) : an.literal_index[i] = j}

\* delta of the copy at position i (1-based), from the costs of an
DeltaOf(an, i) ==
    LET j == an.literal_index[i]
    IN F32DivInt(F32Sub(an.cost[j + 1], an.cost[i]),
                 Cardinality(CopiesOf(an, j)) + 1)

\* the sum of the deltas of the copies of byte j among positions lo..hi
RECURSIVE DeltaSum(_, _, _, _)
DeltaSum(an, j, lo, hi) ==
    IF lo > hi THEN F32Zero
    ELSE IF lo = hi
    THEN IF an.literal_index[lo] = j THEN DeltaOf(an, lo) ELSE F32Zero
    ELSE F32Add(DeltaSum(an, j, lo, (lo + hi) \div 2),
                DeltaSum(an, j, (lo + hi) \div 2 + 1, hi))

\* the costs after a pass over the costs of an in which every copy i gives
\* sign * delta to its origin j: the origin gets the sum of what its copies
\* give, a byte without copies and without origin keeps its cost
Transferred(an, sign) ==
    [i \in 1..Len(an.cost) |->
        IF an.literal_index[i] # UsizeMax
        THEN F32Sub(an.cost[i],
                    <<sign * DeltaOf(an, i)[1], DeltaOf(an, i)[2]>>)
        ELSE IF CopiesOf(an, i - 1) = {} THEN an.cost[i]
        ELSE F32Add(an.cost[i],
                    <<sign * DeltaSum(an, i - 1, 1, Len(an.cost))[1],
                      DeltaSum(an, i - 1, 1, Len(an.cost))[2]>>)]

\* the step of analyze that redistributes
RedistributionStep == apc = "redistribute" /\ apc' = "returned"

\* the pass runs once: the costs analyze has returned are not touched again
PassRunsOnce == apc = "returned" => data' = data

\* C19: cost redistribution as the specification words it: one pass, every
\* delta = (cost[j] - cost[i]) / (refcount[j] + 1) computed from the costs
\* before the pass, and delta goes from the copy i to its origin j: cost[i]
\* decreases by delta, cost[j] increases by delta.
C19_CopyGivesToOrigin ==
    [][/\ RedistributionStep => data'.cost = Transferred(data, 1)
       /\ PassRunsOnce]_vars

\* C19, amended: one pass, every delta computed from the costs before the
\* pass, and delta goes from the origin j to the copy i: cost[i] increases by
\* delta, cost[j] decreases by delta; a byte that is neither a copy nor an
\* origin keeps its cost, as do unpacked and literal_index.
C19_OriginGivesToCopy ==
    [][/\ RedistributionStep =>
             /\ data'.cost = Transferred(data, 0 - 1)
             /\ data'.unpacked = data.unpacked
             /\ data'.literal_index = data.literal_index
       /\ PassRunsOnce]_vars

\* analyze has returned costs among which an origin with two copies or more
\* has given cost away, next to a byte that is neither copy nor origin
C19_Witness ==
    /\ apc = "returned"
    /\ \E j \in 1..Len(data.cost) :
          /\ data.literal_index[j] = UsizeMax
          /\ Cardinality(CopiesOf(data, j - 1)) >= 2
          /\ data.cost[j][2] # 1
    /\ \E k \in 1..Len(data.cost) :
          /\ data.literal_index[k] = UsizeMax
          /\ CopiesOf(data, k - 1) = {}
          /\ data.cost[k][2] = 1

\* the bits of the four items of a match the decoder has read
MatchBits(item) ==
    item.length_base.length + item.length_ext.length
        + item.offset_base.length + item.offset_ext.length

\* the costs of the bytes of an item the decoder has read
CostsRead(item) ==
    IF item.kind = "Literal" THEN <<F32(item.item.length, 1)>>
    ELSE IF item.kind = "Match"
    THEN [i \in 1..item.length |-> F32(MatchBits(item), item.length)]
    ELSE <<>>

\* the costs of the bytes of an item of a block of the given type, from the
\* bits the compressor wrote for it
CostsWritten(type, item) ==
    IF item.kind = "Literal" THEN <<F32(Len(ItemBits(type, item)), 1)>>
    ELSE [i \in 1..item.length |->
             F32(Len(ItemBits(type, item)), item.length)]

\* the costs of the bytes of a block
BlockCosts(b) ==
    Flatten([k \in 1..Len(b.items) |-> CostsWritten(b.type, b.items[k])])

\* C20: cost attribution during decode: before the redistribution a byte of
\* a literal costs the bits of its Huffman code, and each of the length
\* bytes of a match costs the bits of the four items of the match (length
\* code, length extra bits, distance code, distance extra bits) over length,
\* so that the bytes of one match cost the bits of its four items together;
\* the bits are those the decoder has read and, once the stream is decoded,
\* those the compressor wrote.
C20_CostAttribution ==
    /\ apc \in {"header", "decode", "redistribute"} =>
          /\ data.cost =
                Flatten([k \in 1..Len(AllItems) |-> CostsRead(AllItems[k])])
          /\ \A k \in 1..Len(AllItems) :
                AllItems[k].kind = "Match" =>
                    SumCost(SubSeq(data.cost, StartOf(AllItems, k) + 1,
                                   StartOf(AllItems, k) + AllItems[k].length))
                        = F32(MatchBits(AllItems[k]), 1)
    /\ apc = "redistribute" =>
          data.cost = Flatten([k \in 1..Len(stream) |-> BlockCosts(stream[k])])

\* the stream is decoded and not yet redistributed: a literal, a match with
\* extra length bits and a match with extra distance bits, with a cost that
\* is no whole number of bits
C20_Witness ==
    /\ apc = "redistribute"
    /\ \E k \in 1..Len(AllItems) : AllItems[k].kind = "Literal"
    /\ \E k \in 1..Len(AllItems) :
          /\ AllItems[k].kind = "Match"
          /\ AllItems[k].length_ext.length > 0
    /\ \E k \in 1..Len(AllItems) :
          /\ AllItems[k].kind = "Match"
          /\ AllItems[k].offset_ext.length > 0
    /\ \E i \in 1..Len(data.cost) : data.cost[i][2] # 1

----------------------------------------------------------------------------
(* Properties of Huffman::read and of the Bitstream.                       *)

\* bit k (from 0) of a byte string, least significant bit of a byte first
StreamBit(d, k) == (d[k \div 8 + 1] \div 2^(k % 8)) % 2

\* the first n bits of d as a number, the first bit the most significant
RECURSIVE CodeRead(_, _)
CodeRead(d, n) ==
    IF n = 0 THEN 0 ELSE 2 * CodeRead(d, n - 1) + StreamBit(d, n - 1)

\* the symbols of length n in ascending order
SymbolsOfLength(ls, n) ==
    SelectSeq([k \in 1..Len(ls) |-> k - 1], LAMBDA sym : ls[sym + 1] = n)

\* RFC 1951, 3.2.2: the decoder of the canonical code of the lengths ls: the
\* pairs <<symbol, bits taken>> whose code the data d starts with
CanonicalDecode(ls, d) ==
    {<<SymbolsOfLength(ls, n)[CodeRead(d, n) - RfcNextCode(ls, n) + 1], n>> :
        n \in {m \in 1..SetMax({ls[k] : k \in 1..Len(ls)}) :
                  /\ RfcNextCode(ls, m) <= CodeRead(d, m)
                  /\ CodeRead(d, m) < RfcNextCode(ls, m) + BlCount(ls, m)}}

\* C21: canonical Huffman decoding: for code lengths of a prefix code,
\* Huffman::read on the table built from them returns the symbol, and takes
\* the number of bits, that the decoder of the canonical code of RFC 1951
\* does, on every input; where the input starts with no code (the code is
\* incomplete) neither returns a symbol.  The codes of a static block are
\* among the tables.
C21_CanonicalHuffman ==
    /\ apc = "returned" =>
          CanonicalDecode(code_lengths, input) = {<<symbol, bitstream.pos>>}
    /\ apc = "panicked" => CanonicalDecode(code_lengths, input) = {}

\* a read of a code of nine bits of the static literal/length table
C21_Witness ==
    /\ apc = "returned"
    /\ Len(code_lengths) = 288
    /\ symbol >= 144 /\ symbol <= 255
    /\ bitstream.pos = 9

\* the items of the header of a block, in the order they were taken
HeaderItems(b) ==
    <<b.header_item>>
    \o (IF b.block_type.kind = "DynamicHuffman"
        THEN <<b.block_type.huff_header_item>>
             \o [k \in 1..Len(b.block_type.huff_header_lengths) |->
                    b.block_type.huff_header_lengths[k][3]]
             \o Flatten([k \in 1..Len(b.block_type.huff_header_codes) |->
                    LET c == b.block_type.huff_header_codes[k]
                    IN IF c.kind = "Length" THEN <<c.huff_item>>
                       ELSE <<c.huff_item, c.count_item>>])
        ELSE <<>>)

\* the items of decoded LzItems, in the order they were taken
LzBitItems(items) ==
    Flatten([k \in 1..Len(items) |->
        IF items[k].kind = "Match"
        THEN <<items[k].length_base, items[k].length_ext,
               items[k].offset_base, items[k].offset_ext>>
        ELSE <<items[k].item>>])

\* every BitstreamItem taken so far, in the order they were taken
ItemsTaken ==
    Flatten([k \in 1..Len(blocks) |->
                HeaderItems(blocks[k]) \o LzBitItems(blocks[k].lz)])
    \o (IF apc = "decode" THEN HeaderItems(block) \o LzBitItems(lz_items)
        ELSE <<>>)

\* the bits pos..pos+length-1 of the input, the first the least significant
RECURSIVE BitsAt(_, _, _)
BitsAt(d, pos, length) ==
    IF length = 0 THEN 0
    ELSE StreamBit(d, pos) + 2 * BitsAt(d, pos + 1, length - 1)

\* the end of the first k items
ItemEnd(items, k) == IF k = 0 THEN 0 ELSE items[k].pos + items[k].length

\* C22: the items of take_item partition the consumed stream: the first
\* item starts at bit 0, every other one where the one before it ends, the
\* last one ends at the read position, which take_item leaves where it was;
\* the bits of an item are the stream bits it covers, the first bit the least
\* significant; no item is longer than 32 bits, and no code of a table is
\* longer than 15 bits, so the assertion of take_item holds.
C22_ItemsPartition ==
    apc \in {"header", "decode", "redistribute", "returned"} =>
        /\ \A items \in {ItemsTaken} :
              /\ \A k \in 1..Len(items) :
                    /\ items[k].pos = ItemEnd(items, k - 1)
                    /\ items[k].length <= 32
                    /\ items[k].bits =
                          BitsAt(input, items[k].pos, items[k].length)
              /\ bitstream.pos = ItemEnd(items, Len(items))
        /\ bitstream.item_start = bitstream.pos
        /\ \A k \in 1..Len(huff_lit_length) : huff_lit_length[k][2] <= 15
        /\ \A k \in 1..Len(huff_distance) : huff_distance[k][2] <= 15

\* analyze has returned from a stream with a dynamic block whose header
\* holds a repeat code and whose items hold a match with extra bits
C22_Witness ==
    /\ apc = "returned"
    /\ \E k \in 1..Len(blocks) :
          /\ blocks[k].block_type.kind = "DynamicHuffman"
          /\ \E c \in 1..Len(blocks[k].block_type.huff_header_codes) :
                blocks[k].block_type.huff_header_codes[c].kind # "Length"
          /\ \E i \in 1..Len(blocks[k].lz) :
                /\ blocks[k].lz[i].kind = "Match"
                /\ blocks[k].lz[i].length_ext.length > 0
    /\ Len(ItemsTaken) > 8


-----------------------------------------------------------------------------
\* Properties of merge_renames in the auto-rename loop

\* the token tree of the source before any renaming: the directives are
\* taken out and nothing else is done
OriginalTree == find_renames(parse(code)).tt

\* C23: at every pass of the auto-rename loop the merged map, applied in one
\* pass to the original token tree, gives the tree the program holds after
\* the maps were applied one after the other
C23_MergePreservesRenaming ==
    pc = "renamed" =>
        StripOffsets(tt) =
            StripOffsets(apply_transform_to_load(
                             apply_renames(OriginalTree, rename)))

-----------------------------------------------------------------------------
\* Properties of apply_transform_to_load

\* the tree apply_transform_to_load is given: the directives of find_renames
\* are taken out and applied
BeforeTransform ==
    LET found == find_renames(parse(code))
    IN apply_renames(found.tt, found.renames)

IsTransformDirective(t) ==
    t.kind = "Token" /\ t.type = "Comment" /\ ReTransformToLoad(t.text)

\* function NAME ( ) ... end
HasLoadShape(t) ==
    /\ t.kind = "SubTree"
    /\ Len(t.tt) >= 5
    /\ t.tt[1].kind = "Token" /\ t.tt[1].text = kwFunction
    /\ t.tt[2].kind = "Token" /\ t.tt[2].text # <<>>
    /\ t.tt[3].kind = "Token" /\ t.tt[3].text = <<"(">>
    /\ t.tt[4].kind = "Token" /\ t.tt[4].text = <<")">>
    /\ t.tt[Len(t.tt)].kind = "Token" /\ t.tt[Len(t.tt)].text = kwEnd

\* NAME = load "body"
LoadForm(t) ==
    << Token("Identifier", 0, t.tt[2].text), Token("Other", 0, <<"=">>),
       Token("Identifier", 0, kwLoad),
       CodeString(SubSeq(t.tt, 5, Len(t.tt) - 1), "\"") >>

\* the sub-tree at i directly follows a directive
FollowsDirective(tree, i) == i > 1 /\ IsTransformDirective(tree[i - 1])

\* a directive before i is still waiting for its function: no sub-tree of
\* the shape lies between the two
DirectivePending(tree, i) ==
    \E j \in 1..(i - 1) :
        /\ IsTransformDirective(tree[j])
        /\ \A k \in (j + 1)..(i - 1) : ~HasLoadShape(tree[k])

\* the tree with the top-level directives dropped and the sub-trees at the
\* positions of rewritten replaced by their load form
Rewritten(tree, rewritten) ==
    Concat([i \in 1..Len(tree) |->
               IF IsTransformDirective(tree[i]) THEN <<>>
               ELSE IF i \in rewritten THEN LoadForm(tree[i])
               ELSE <<tree[i]>>])

-----------------------------------------------------------------------------
\* Properties of parse_load_functions

\* the token announces a code string: the identifier load or a comment
\* -- code string
AnnouncesCode(t) ==
    /\ t.kind = "Token"
    /\ \/ t.type = "Identifier" /\ t.text = kwLoad
       \/ t.type = "Comment" /\ ReCodeStringComment(t.text)

IsStringToken(t) == t.kind = "Token" /\ t.type = "String"

\* a string that directly follows an announcement is still a String token,
\* at this level of the tree or in a sub-tree or code string below it
RECURSIVE Unrecognised(_)
Unrecognised(tree) ==
    \/ \E i \in 1..(Len(tree) - 1) :
          AnnouncesCode(tree[i]) /\ IsStringToken(tree[i + 1])
    \/ \E i \in 1..Len(tree) :
          tree[i].kind # "Token" /\ Unrecognised(tree[i].tt)

\* C25: after parse no String token directly follows the identifier load or
\* a comment -- code string, at the top level, in a function body or in a
\* code string: each of them has become a CodeString
C25_RecognisedEverywhere == pc = "parsed" => ~Unrecognised(parse(code))

\* what holds of the code: at the top level of the tree and of every code
\* string, outside function bodies, every announced string is recognised
RECURSIVE UnrecognisedOutsideFunctions(_)
UnrecognisedOutsideFunctions(tree) ==
    \/ \E i \in 1..(Len(tree) - 1) :
          AnnouncesCode(tree[i]) /\ IsStringToken(tree[i + 1])
    \/ \E i \in 1..Len(tree) :
          /\ tree[i].kind = "CodeString"
          /\ UnrecognisedOutsideFunctions(tree[i].tt)

C25_RecognisedOutsideFunctions ==
    pc = "parsed" => ~UnrecognisedOutsideFunctions(parse(code))

-----------------------------------------------------------------------------
\* Properties of find_renames

\* the rename directives of a tree, in source order, those inside sub-trees
\* and code strings included
RECURSIVE DirectivesIn(_)
DirectivesIn(tree) ==
    Concat([i \in 1..Len(tree) |->
               IF tree[i].kind = "Token"
               THEN IF IsRenameComment(tree[i]) THEN <<tree[i]>> ELSE <<>>
               ELSE IF tree[i].kind = "SubTree" THEN DirectivesIn(tree[i].tt)
               ELSE <<>>])

\* the rename directives at the top level of a tree, in source order
TopDirectivesIn(tree) ==
    SelectSeq(tree, LAMBDA t : t.kind = "Token" /\ IsRenameComment(t))

\* the map a sequence of directives stands for: the last directive for a
\* name decides
RECURSIVE MapOfDirectives(_)
MapOfDirectives(ds) ==
    IF ds = <<>> THEN EmptyMap
    ELSE LET caps == ReRename(ds[Len(ds)].text)
             before == MapOfDirectives(SubSeq(ds, 1, Len(ds) - 1))
         IN [k \in DOMAIN before \cup {caps[1]} |->
                IF k = caps[1] THEN caps[2] ELSE before[k]]

\* C26: every rename directive of the source, at the top level or in a
\* function body, is recorded in the rename map, the last one for a name
\* deciding, and none of them is left in the tree
C26_DirectivesEverywhere ==
    pc = "parsed" =>
        /\ renames = MapOfDirectives(DirectivesIn(parse(code)))
        /\ DirectivesIn(tt) = <<>>

\* what holds of the code: the top-level directives are recorded, the last
\* one for a name deciding, none of them is left at the top level, and the
\* tree is the one with the map applied in one pass before the rewrite
C26_TopLevelDirectives ==
    pc = "parsed" =>
        /\ renames = MapOfDirectives(TopDirectivesIn(parse(code)))
        /\ TopDirectivesIn(tt) = <<>>
        /\ tt = apply_transform_to_load(
                    apply_renames(SelectSeq(parse(code),
                        LAMBDA t : ~(t.kind = "Token" /\ IsRenameComment(t))),
                        renames))

-----------------------------------------------------------------------------
\* Properties of get_rename_candidates

\* offset o lies in an occurrence of a renameable identifier
InOccurrence(cands, o) ==
    \E id \in DOMAIN cands.renameable :
        \E k \in 1..Len(cands.renameable[id]) :
            /\ cands.renameable[id][k] <= o
            /\ o < cands.renameable[id][k] + Len(id)

\* C27: after serialize has produced out, every candidate character offset
\* lies in out, on a byte that can start an identifier and outside every
\* occurrence of a renameable identifier, and every occurrence offset of a
\* renameable identifier points at the bytes of that identifier in out,
\* inside code strings with escaped bytes too
C27_CandidateChars ==
    pc = "serialized" =>
        \A cands \in {get_rename_candidates(tt)} :
            /\ \A k \in 1..Len(cands.candidate_chars) :
                  \A o \in {cands.candidate_chars[k]} :
                      /\ o >= 0 /\ o < Len(out)
                      /\ is_valid_ident_start(out[o + 1])
                      /\ ~InOccurrence(cands, o)
            /\ \A id \in DOMAIN cands.renameable :
                  \A k \in 1..Len(cands.renameable[id]) :
                      \A q \in {cands.renameable[id][k]} :
                          /\ q >= 0 /\ q + Len(id) <= Len(out)
                          /\ SubSeq(out, q + 1, q + Len(id)) = id

\* a renameable identifier two code strings deep, right behind an escaped
\* quote, and a candidate character right behind an escaped quote
C27_Witness ==
    /\ pc = "serialized"
    /\ \E cands \in {get_rename_candidates(tt)} :
          /\ \E id \in DOMAIN cands.renameable :
                \E k \in 1..Len(cands.renameable[id]) :
                    /\ cands.renameable[id][k] >= 2
                    /\ out[cands.renameable[id][k]] = "\""
                    /\ out[cands.renameable[id][k] - 1] = "\\"
          /\ \E k \in 1..Len(cands.candidate_chars) :
                /\ cands.candidate_chars[k] >= 2
                /\ out[cands.candidate_chars[k]] = "\""
                /\ out[cands.candidate_chars[k] - 1] = "\\"

-----------------------------------------------------------------------------
\* Properties of compute_rename_suggestions

\* the classes of candidate names: a to f, then p and x, then the others
EfficiencyClass(c) ==
    IF c \in {"a","b","c","d","e","f","A","B","C","D","E","F"} THEN 0
    ELSE IF c \in {"p","x","P","X"} THEN 1
    ELSE 2

\* a renameable identifier of higher score, or of the same score and
\* earlier first occurrence, comes first
IdBefore(a, b) ==
    \/ F32Less(b.count, a.count)
    \/ ~F32Less(a.count, b.count) /\ a.offset < b.offset

\* a candidate name of higher score comes first, then one of the higher
\* class, then the one found earlier
NameBefore(a, b) ==
    \/ F32Less(b.count, a.count)
    \/ /\ ~F32Less(a.count, b.count)
       /\ \/ EfficiencyClass(a.id[1]) > EfficiencyClass(b.id[1])
          \/ /\ EfficiencyClass(a.id[1]) = EfficiencyClass(b.id[1])
             /\ a.offset < b.offset

\* the score of an identifier: 1 for each of its bytes that a literal of a
\* dynamic block emitted, 1/10 for each that a literal of another block
\* emitted, over its length
IdScore(an, offsets, len) ==
    LET bytes == {o + i : o \in {offsets[k] : k \in 1..Len(offsets)},
                          i \in 0..(len - 1)}
        lits == {o \in bytes : an.literal_index[o + 1] = UsizeMax}
        dyn == {o \in lits : an.block_type[o + 1] = 2}
    IN F32(10 * Cardinality(dyn) + Cardinality(lits \ dyn), 10 * len)

\* the number of elements of S that come before a
RankIn(S, Before(_, _), a) == Cardinality({b \in S : Before(b, a)})

\* the pairing of the ranked identifiers ids with the ranked names
Paired(ids, names, value, an, cands) ==
    /\ DOMAIN value = DOMAIN cands.renameable
    /\ {u.id : u \in ids} = DOMAIN cands.renameable
    /\ \A u \in ids :
          /\ ~F32Less(u.count, IdScore(an, cands.renameable[u.id], Len(u.id)))
          /\ ~F32Less(IdScore(an, cands.renameable[u.id], Len(u.id)), u.count)
          /\ u.offset = cands.renameable[u.id][1]
    \* the order does not depend on the order the maps are walked in
    /\ \A u, v \in ids : u # v => IdBefore(u, v) \/ IdBefore(v, u)
    /\ \A m, n \in names : m # n => NameBefore(m, n) \/ NameBefore(n, m)
    \* the i-th identifier gets the i-th name
    /\ \A u \in ids : \A n \in names :
          RankIn(ids, IdBefore, u) = RankIn(names, NameBefore, n)
              => value[u.id] = n.id
    \* the identifiers past the last name get other names
    /\ \A u \in ids :
          RankIn(ids, IdBefore, u) >= Cardinality(names)
              => value[u.id] \notin {n.id : n \in names}

DistinctNames(cands, value) ==
    /\ DOMAIN value = DOMAIN cands.renameable
    /\ \A u, v \in DOMAIN value : u # v => value[u] # value[v]

\* C29: the map compute_rename_suggestions returns has the renameable
\* identifiers as keys, pairwise distinct values, and no value that is a
\* fixed identifier of the program
C29_NoNameCapture ==
    pc = "loop" =>
        \A cands \in {get_rename_candidates(tt)} :
        \A sugg \in {SuggestionsOf(cands, AnalysisDataOf(data, blocks))} :
            sugg.ok =>
                /\ DistinctNames(cands, sugg.value)
                /\ \A u \in DOMAIN sugg.value : sugg.value[u] \notin cands.fixed

\* what holds of the code: the keys are the renameable identifiers and the
\* values are pairwise distinct
C29_DistinctValues ==
    pc = "loop" =>
        \A cands \in {get_rename_candidates(tt)} :
        \A sugg \in {SuggestionsOf(cands, AnalysisDataOf(data, blocks))} :
            sugg.ok => DistinctNames(cands, sugg.value)

-----------------------------------------------------------------------------
\* Properties of tic_file::save and tic_file::load

\* C30: load returns the chunks save was given: the same types, banks and
\* payloads in the same order
C30_RoundTrip == pc = "loaded" => loaded = cartridge

\* the last chunk is the new-palette marker without payload
MarkerLast ==
    /\ cartridge # <<>>
    /\ cartridge[Len(cartridge)].type_ = 17
    /\ cartridge[Len(cartridge)].data = <<>>

\* what holds of the code: the chunks come back unless the last of them is
\* the marker without payload, and then all but the marker come back
C30_RoundTripButMarker ==
    pc = "loaded" =>
        IF MarkerLast
        THEN loaded = SubSeq(cartridge, 1, Len(cartridge) - 1)
        ELSE loaded = cartridge

====
